---- MODULE Spec2Model ----
(***************************************************************************)
(* RaceSpace telemetry service: the analysis pipeline of the two server    *)
(* copies kept in the repository.                                          *)
(*                                                                         *)
(*   copy "A"  src/unnamed/part_001 lines 1-503   (synthetic fallback)     *)
(*   copy "B"  src/unnamed/part_001 lines 505-1044 (auth, rate limit)      *)
(*                                                                         *)
(* Conventions.  A string the code inspects character by character is a    *)
(* sequence of one-character strings.  A telemetry cell is a tagged        *)
(* record: a number (fixed point, in tenths: 0.8 is 8, 250 is 2500), null, *)
(* undefined or a nested position object.  A number the code computes by   *)
(* division is a fraction [n, d] in lowest terms, or NaN.                  *)
(***************************************************************************)
EXTENDS Integers, Sequences, FiniteSets, TLC

VARIABLES
    ver,        \* which server copy runs: "A" or "B"
    apiKey,     \* process.env.DEEPSEEK_API_KEY is set (read by copy A only)
    pc,         \* pc[r]: where request r's handler is suspended
    req,        \* req[r]: the request as received
    trace,      \* trace[r]: the pipeline stages request r has entered, in order
    parser,     \* parser[r]: the format tag handed to the extractor
    extraction, \* extraction[r]: what extractTrackPointsFromTelemetry returned
    problems,   \* problems[r]: what findProblemAreas returned
    aiCalls,    \* aiCalls[r]: outbound fetches issued for request r
    aiReply,    \* aiReply[r]: the HTTP response the pending fetch resolved with
    result,     \* result[r]: what analyzeTelemetryWithAI returned
    http,       \* http[r]: the response sent to the client
    uploads,    \* the set of requests whose uploaded file is in the upload directory
    analysisRateLimit, \* ip -> accepted request times (copy B)
    users,      \* the in-memory user store (copy B)
    now,        \* Date.now(), in seconds
    unit,       \* a core function called on its own: its arguments, its locals
                \* and what it returned (NoUnit while none was called)
    reg,        \* reg[g]: the POST /register request g (copy B): where its
                \* handler is suspended, its email, the status it answered
    client      \* the browser client (src/App.tsx): the App component's state,
                \* the token in localStorage and the requests it has in flight

vars == <<ver, apiKey, pc, req, trace, parser, extraction, problems, aiCalls,
          aiReply, result, http, uploads, analysisRateLimit, users, now, unit, reg, client>>

-----------------------------------------------------------------------------
(* Bounds of the model *)

MaxRows == 12      \* rows of the generated tables of the request pipeline
BigRows == 402     \* largest row count of the extraction specification
MaxPad == 21       \* longest run of blanks put before a payload's first character

-----------------------------------------------------------------------------
(* Arithmetic helpers *)

Min(a, b) == IF a < b THEN a ELSE b
Max(a, b) == IF a > b THEN a ELSE b
Abs(a) == IF a < 0 THEN -a ELSE a

RECURSIVE Gcd(_, _)
Gcd(a, b) == IF b = 0 THEN a ELSE Gcd(b, a % b)

\* The number n/d (d # 0), in lowest terms with a positive denominator.
Frac(n, d) ==
    LET g == Gcd(Abs(n), Abs(d))
        s == IF d < 0 THEN -1 ELSE 1
    IN  [n |-> (s * n) \div g, d |-> (s * d) \div g]

NaN == [n |-> 0, d |-> 0]
IsNaN(q) == q.d = 0

RECURSIVE SumSeq(_)
SumSeq(s) == IF s = << >> THEN 0 ELSE Head(s) + SumSeq(Tail(s))

RECURSIVE MinSeq(_)
MinSeq(s) == IF Len(s) = 1 THEN s[1] ELSE Min(s[1], MinSeq(Tail(s)))

RECURSIVE MaxSeq(_)
MaxSeq(s) == IF Len(s) = 1 THEN s[1] ELSE Max(s[1], MaxSeq(Tail(s)))

-----------------------------------------------------------------------------
(* Strings as character sequences *)

UpperCase == <<"A","B","C","D","E","F","G","H","I","J","K","L","M",
               "N","O","P","Q","R","S","T","U","V","W","X","Y","Z">>
LowerCase == <<"a","b","c","d","e","f","g","h","i","j","k","l","m",
               "n","o","p","q","r","s","t","u","v","w","x","y","z">>

\* String.prototype.toLowerCase
ToLowerCase(s) ==
    [i \in 1..Len(s) |->
        IF \E k \in 1..26 : UpperCase[k] = s[i]
        THEN LowerCase[CHOOSE k \in 1..26 : UpperCase[k] = s[i]]
        ELSE s[i]]

\* String.prototype.includes
Includes(s, k) ==
    \E i \in 0..(Len(s) - Len(k)) : SubSeq(s, i + 1, i + Len(k)) = k

\* String.prototype.substring(0, n)
Substring0(s, n) == SubSeq(s, 1, Min(n, Len(s)))

\* Header names and keywords the code compares
S_speed == <<"s","p","e","e","d">>
S_velocity == <<"v","e","l","o","c","i","t","y">>
S_kmh == <<"k","m","h">>
S_mph == <<"m","p","h">>
S_throttle == <<"t","h","r","o","t","t","l","e">>
S_gas == <<"g","a","s">>
S_brake == <<"b","r","a","k","e">>
S_gear == <<"g","e","a","r">>
S_x == <<"x">>
S_z == <<"z">>
S_position_x == <<"p","o","s","i","t","i","o","n","_","x">>
S_position_z == <<"p","o","s","i","t","i","o","n","_","z">>
S_x_pos == <<"x","_","p","o","s">>
S_z_pos == <<"z","_","p","o","s">>
S_worldpositionx == <<"w","o","r","l","d","p","o","s","i","t","i","o","n","x">>
S_worldpositionz == <<"w","o","r","l","d","p","o","s","i","t","i","o","n","z">>
S_position == <<"p","o","s","i","t","i","o","n">>

-----------------------------------------------------------------------------
(* Telemetry cells and rows *)

Num(n) == [t |-> "num", v |-> n]
Null == [t |-> "null", v |-> 0]
Undef == [t |-> "undef", v |-> 0]
Pos(x, z) == [t |-> "pos", v |-> 0, x |-> x, z |-> z]   \* {x: .., z: ..}

\* An object with ordered keys; an array entry that is JSON null is NullItem.
Row(keys, vals) == [t |-> "row", keys |-> keys, vals |-> vals]
NullItem == [t |-> "null", keys |-> << >>, vals |-> << >>]

\* row[key]: undefined when the key is absent (or is itself undefined)
Get(row, key) ==
    IF \E i \in 1..Len(row.keys) : row.keys[i] = key
    THEN row.vals[CHOOSE i \in 1..Len(row.keys) : row.keys[i] = key]
    ELSE Undef

\* value != null
NotNullish(c) == c.t \notin {"null", "undef"}

\* ToNumber: null is 0, undefined is NaN; the result is a fraction or NaN
ToNumber(c) ==
    CASE c.t = "num"  -> Frac(c.v, 1)
      [] c.t = "null" -> Frac(0, 1)
      [] OTHER        -> NaN

\* a - b on fractions (NaN if either is NaN)
Sub(a, b) ==
    IF IsNaN(a) \/ IsNaN(b) THEN NaN ELSE Frac(a.n * b.d - b.n * a.d, a.d * b.d)

\* a > k for a fraction a and an integer k (false for NaN)
Gt(a, k) == ~IsNaN(a) /\ a.n > k * a.d

\* a < k for a fraction a and an integer k (false for NaN)
Lt(a, k) == ~IsNaN(a) /\ a.n < k * a.d

\* value || 0 on a cell: the falsy cells (0, null, undefined) become 0
OrZero(c) == IF c.t = "num" THEN c.v ELSE 0

-----------------------------------------------------------------------------
(* Array.prototype.find with a predicate on headers: the first match or undefined *)

FirstIndex(hits) ==
    IF \E i \in 1..Len(hits) : hits[i]
    THEN CHOOSE i \in 1..Len(hits) : hits[i] /\ \A j \in 1..(i - 1) : ~hits[j]
    ELSE 0

\* The header found, or NoColumn (undefined); hits[i] tells whether the
\* predicate holds of headers[i]
NoColumn == << >>
Find(headers, hits) ==
    LET i == FirstIndex(hits) IN IF i = 0 THEN NoColumn ELSE headers[i]

-----------------------------------------------------------------------------
(* smoothTrackPoints; a point is a pair of fractions *)

WindowSize == 5

\* copy A: the window is [max(0, i-W), min(n, i+W))
SmoothWindowA(n, i, w) == (Max(0, i - w) + 1)..Min(n, i + w)
\* copy B: the window is [max(0, i-W), min(n, i+W+1))
SmoothWindowB(n, i, w) == (Max(0, i - w) + 1)..Min(n, i + w + 1)

\* The window of 0-based index i, as 1-based positions
SmoothWindow(v, n, i, w) ==
    IF v = "A" THEN SmoothWindowA(n, i, w) ELSE SmoothWindowB(n, i, w)

RECURSIVE SumOver(_, _, _, _)
SumOver(points, k, lo, hi) ==
    IF lo > hi THEN 0 ELSE points[lo][k] + SumOver(points, k, lo + 1, hi)

\* The numbers are IEEE doubles.  Adding cnt copies of one value, starting
\* from 0, and dividing by cnt gives the value back only when the sum is
\* exact.  MeanDrift[c][cnt] is how many units in the last place the result is
\* away from c/10, for c = 1..9 (0.1 .. 0.9) and cnt up to 15, as the double
\* arithmetic gives it; halves and whole numbers add exactly, and so do one
\* or two copies of any value.
MeanDrift ==
    << << 0,  0,  1,  0,  0, -1, -1, -1, -1, -1, -1, -1,  0,  0,  1>>,   \* 0.1
       << 0,  0,  1,  0,  0, -1, -1, -1, -1, -1, -1, -1,  0,  0,  1>>,   \* 0.2
       << 0,  0,  0,  0,  0,  0,  0,  0,  0, -1, -1, -1, -1, -1, -1>>,   \* 0.3
       << 0,  0,  1,  0,  0, -1, -1, -1, -1, -1, -1, -1,  0,  0,  1>>,   \* 0.4
       << 0,  0,  0,  0,  0,  0,  0,  0,  0,  0,  0,  0,  0,  0,  0>>,   \* 0.5
       << 0,  0,  0,  0,  0,  0,  0,  0,  0, -1, -1, -1, -1, -1, -1>>,   \* 0.6
       << 0,  0, -1,  0,  0,  1,  1,  1,  1,  1,  1,  1,  0,  0, -1>>,   \* 0.7
       << 0,  0,  1,  0,  0, -1, -1, -1, -1, -1, -1, -1,  0,  0,  1>>,   \* 0.8
       << 0,  0,  0,  0,  0,  0,  1,  1,  1,  1,  2,  2,  2,  2,  2>> >> \* 0.9

\* The double `ulps` units in the last place away from c/10; one unit in the
\* last place is drawn as a millionth of a tenth
Nearby(c, ulps) == Frac(c * 1000000 + ulps, 1000000)

\* window.reduce((sum, p) => sum + p[k], 0) / window.length over the positions
\* lo..hi: 0/0 on an empty window, the rounded mean of equal values, and the
\* exact mean otherwise
Mean(points, k, lo, hi) ==
    LET cnt == hi - lo + 1
        c == points[lo][k]
    IN  IF cnt <= 0 THEN NaN
        ELSE IF \A j \in lo..hi : points[j][k] = c
        THEN (IF c % 5 = 0 \/ cnt <= 2 THEN Frac(c, 1)
              ELSE Nearby(c, MeanDrift[c][cnt]))
        ELSE Frac(SumOver(points, k, lo, hi), cnt)

\* A smoother that averages over a window of fixed length, taking the
\* positions beyond the ends as zero
smoothTrackPointsPadded(v, points, w) ==
    [i \in 1..Len(points) |->
        LET lo == Max(1, i - w)
            hi == Min(Len(points), i + w)
        IN  <<Frac(SumOver(points, 1, lo, hi), 2 * w + 1),
              Frac(SumOver(points, 2, lo, hi), 2 * w + 1)>>]

\* A smoother that returns only the points whose window is whole
smoothTrackPointsWhole(v, points, w) ==
    IF Len(points) < 2 * w + 1
    THEN [i \in 1..Len(points) |-> <<Frac(points[i][1], 1), Frac(points[i][2], 1)>>]
    ELSE [i \in 1..(Len(points) - 2 * w) |->
            <<Mean(points, 1, i, i + 2 * w), Mean(points, 2, i, i + 2 * w)>>]

\* Raw points are pairs of numbers in tenths; the smoothed ones pairs of
\* fractions.
smoothTrackPoints(v, points, w) ==
    IF Len(points) < w
    THEN [i \in 1..Len(points) |-> <<Frac(points[i][1], 1), Frac(points[i][2], 1)>>]
    ELSE [i \in 1..Len(points) |->
            LET win == SmoothWindow(v, Len(points), i - 1, w)
                lo == IF win = {} THEN 1 ELSE CHOOSE a \in win : \A b \in win : a <= b
                hi == IF win = {} THEN 0 ELSE CHOOSE a \in win : \A b \in win : a >= b
            IN  <<Mean(points, 1, lo, hi), Mean(points, 2, lo, hi)>>]

-----------------------------------------------------------------------------
(* Generated telemetry tables *)

HdrStd == <<S_speed, S_throttle, S_brake, S_gear, S_x, S_z>>
HdrNoPos == <<S_speed, S_throttle, S_brake, S_gear>>
HdrNested == <<S_position, S_speed, S_throttle, S_brake, S_gear>>

\* Row i (0-based) of the table described by g:
\*   g.hdr   which header list the rows carry
\*   g.flat  every x is the same value
\*   g.hole  the index of the row whose x is missing (-1: none); g.gap is the
\*           missing cell (Null for an empty CSV cell, Undef for an absent key)
\*   g.hot   the rows that brake hard (0.9) from 250 to 220 in gear 4 with the
\*           throttle at 0.9; every other row runs 250 in gear 6, no brake
GenRow(i, g) ==
    LET hot == i \in g.hot
        speed == Num(IF hot THEN 2200 ELSE 2500)
        throttle == Num(IF hot THEN 9 ELSE 10)
        brake == Num(IF hot THEN 9 ELSE 0)
        gear == Num(IF hot THEN 40 ELSE 60)
        x == IF i = g.hole THEN g.gap ELSE Num(IF g.flat THEN 70 ELSE (i - 3) * 10)
        z == Num(((i * 3) % 7) * 10)
    IN  CASE g.hdr = "std" ->
               IF i = g.hole /\ g.gap = Undef
               THEN Row(<<S_speed, S_throttle, S_brake, S_gear, S_z>>,
                        <<speed, throttle, brake, gear, z>>)
               ELSE Row(HdrStd, <<speed, throttle, brake, gear, x, z>>)
          [] g.hdr = "nopos" -> Row(HdrNoPos, <<speed, throttle, brake, gear>>)
          [] OTHER -> Row(HdrNested, <<Pos(x, z), speed, throttle, brake, gear>>)

GenRows(n, g) == [k \in 1..n |-> GenRow(k - 1, g)]

Gen(hdr, flat, hole, gap, hot) ==
    [hdr |-> hdr, flat |-> flat, hole |-> hole, gap |-> gap, hot |-> hot]

-----------------------------------------------------------------------------
(* Payloads.  A payload is the uploaded text, described by what the code    *)
(* reads of it:                                                             *)
(*   head     its first characters (all of them when it is short)           *)
(*   len      its length                                                    *)
(*   samples  its characters at indices 100, 200, ... 900 (those < len)     *)
(*   csv      the rows Papa.parse(text, {header, dynamicTyping}) yields      *)
(*   json     what JSON.parse(text) yields: k = "throw" (SyntaxError),      *)
(*            "array" (items), or "object" whose telemetry field is         *)
(*            tel = "absent", "array" (items) or "other" (not an array)     *)

JsonThrow == [k |-> "throw", tel |-> "absent", items |-> << >>]
JsonArray(items) == [k |-> "array", tel |-> "absent", items |-> items]
JsonObject(tel, items) == [k |-> "object", tel |-> tel, items |-> items]

Blanks(n) == [i \in 1..n |-> " "]

\* The characters at 100, 200, ... of a text of length len whose characters
\* beyond the head are all c
SamplesOf(len, c) == [k \in 1..((Min(len, 1000) - 1) \div 100) |-> c]

Payload(head, len, csv, json) ==
    [head |-> head, len |-> len,
     samples |-> SamplesOf(len, IF json.k = "throw" THEN "0" ELSE ","),
     csv |-> csv, json |-> json]

\* A CSV text: the header line starts the text; JSON.parse rejects it.
CsvPayload(first, n, g) ==
    Payload(first, 60 + 20 * n, GenRows(n, g), JsonThrow)

\* A one-line JSON text after `pad` blanks; read as CSV it is a header line
\* with no data rows.
JsonPayload(pad, first, len, json) ==
    Payload(Blanks(pad) \o first, pad + len, << >>, json)

HeadCsv == <<"s","p","e","e","d",",","t","h","r","o","t","t","l","e",",","b","r","a","k","e",",","g">>
HeadCsvBrace == <<"l","a","p","{","s","}",",","x",",","z">>
HeadArray == <<"[","{","\"","s","p","e","e","d","\"",":","2","5","0">>
HeadNested == <<"{","\"","t","e","l","e","m","e","t","r","y","\"",":","[">>
HeadEmptyObj == <<"{","}">>
HeadFoo == <<"{","\"","f","o","o","\"",":","1","}">>
HeadNullFirst == <<"[","n","u","l","l",",","{","\"","x","\"",":","1","}","]">>
HeadBadJson == <<"{","o","o","p","s">>

Hot == {10}

\* The payloads of the request pipeline
Pads == <<0, 18, 19, MaxPad>>

PipelinePayloads ==
    << CsvPayload(HeadCsv, MaxRows, Gen("std", FALSE, -1, Null, Hot)),
       CsvPayload(HeadCsv, MaxRows, Gen("std", FALSE, -1, Null, {})),
       CsvPayload(HeadCsv, MaxRows, Gen("std", TRUE, -1, Null, Hot)),
       CsvPayload(HeadCsv, MaxRows, Gen("std", FALSE, 10, Null, Hot)),
       CsvPayload(HeadCsv, MaxRows, Gen("nopos", FALSE, -1, Null, Hot)),
       CsvPayload(HeadCsv, 4, Gen("std", FALSE, -1, Null, {})),
       Payload(HeadCsvBrace, 40, GenRows(4, Gen("std", FALSE, -1, Null, {})), JsonThrow),
       JsonPayload(0, HeadArray, 600,
                   JsonArray(GenRows(MaxRows, Gen("std", FALSE, 10, Undef, Hot)))),
       JsonPayload(0, HeadNested, 700,
                   JsonObject("array", GenRows(MaxRows, Gen("nested", FALSE, -1, Null, Hot)))),
       JsonPayload(0, HeadEmptyObj, 2, JsonObject("absent", << >>)),
       JsonPayload(0, HeadFoo, 9, JsonObject("absent", << >>)),
       JsonPayload(0, HeadNullFirst, 14, JsonArray(<<NullItem, Row(<<S_x>>, <<Num(10)>>)>>)),
       JsonPayload(0, HeadBadJson, 5, JsonThrow)
    >> \o
    [k \in 1..Len(Pads) |->
        JsonPayload(Pads[k], HeadArray, 600,
                    JsonArray(GenRows(MaxRows, Gen("std", FALSE, -1, Null, Hot))))]

-----------------------------------------------------------------------------
(* extractTrackPointsFromTelemetry *)

SampleTarget == 200
SniffLen == 20

\* A sniff that looks for the brace in the whole of the text's head
SniffAnywhere(text) == IF Includes(text.head, <<"{">>) THEN "json" ELSE "csv"

\* telemetryData.substring(0, 20).includes('{') ? 'json' : 'csv'
Sniff(text) == IF Includes(Substring0(text.head, SniffLen), <<"{">>) THEN "json" ELSE "csv"

\* The posX header test of the extractor
IsXPos(h) ==
    \/ Includes(ToLowerCase(h), S_position_x)
    \/ Includes(ToLowerCase(h), S_x_pos)
    \/ h = S_x
    \/ Includes(ToLowerCase(h), S_worldpositionx)

\* The posZ header test of the extractor
IsYPos(h) ==
    \/ Includes(ToLowerCase(h), S_position_z)
    \/ Includes(ToLowerCase(h), S_z_pos)
    \/ h = S_z
    \/ Includes(ToLowerCase(h), S_worldpositionz)

\* A sample rate that keeps every row
SampleRateOne(n) == 1

\* Math.max(1, Math.floor(length / 200))
SampleRate(n) == Max(1, n \div SampleTarget)

\* A sampler that keeps the last row of every stride instead of the first
SampleLast(rows, rate) ==
    LET indexed == [k \in 1..Len(rows) |-> [i |-> k - 1, row |-> rows[k]]]
        Keep(e) == e.i % rate = rate - 1
        kept == SelectSeq(indexed, Keep)
    IN  [k \in 1..Len(kept) |-> kept[k].row]

\* rows.filter((_, i) => i % sampleRate === 0)
Sample(rows, rate) ==
    LET indexed == [k \in 1..Len(rows) |-> [i |-> k - 1, row |-> rows[k]]]
        Keep(e) == e.i % rate = 0
        kept == SelectSeq(indexed, Keep)
    IN  [k \in 1..Len(kept) |-> kept[k].row]

\* .map(row => [row[xPos], row[yPos]]).filter(p => p[0] != null && p[1] != null),
\* then the numbers of the points kept
PointsOf(xs, zs) ==
    LET cells == [k \in 1..Len(xs) |-> <<xs[k], zs[k]>>]
        NotNull(p) == NotNullish(p[1]) /\ NotNullish(p[2])
        kept == SelectSeq(cells, NotNull)
    IN  [k \in 1..Len(kept) |-> <<kept[k][1].v, kept[k][2].v>>]

\* The two headers.find calls of the extractor
PositionColumns(headers) ==
    [xPos |-> Find(headers, [i \in 1..Len(headers) |-> IsXPos(headers[i])]),
     yPos |-> Find(headers, [i \in 1..Len(headers) |-> IsYPos(headers[i])])]

\* The CSV branch: {trackPoints (before smoothing), dataPoints}
ExtractCsv(data) ==
    IF Len(data) > 0
    THEN LET headers == data[1].keys
             xPos == PositionColumns(headers).xPos
             yPos == PositionColumns(headers).yPos
         IN  IF xPos # NoColumn /\ yPos # NoColumn
             THEN LET GetX(row) == Get(row, xPos)
                      GetZ(row) == Get(row, yPos)
                      rows == Sample(data, SampleRate(Len(data)))
                  IN  [raw |-> PointsOf([k \in 1..Len(rows) |-> GetX(rows[k])],
                                        [k \in 1..Len(rows) |-> GetZ(rows[k])]),
                       dataPoints |-> data]
             ELSE [raw |-> << >>, dataPoints |-> << >>]
    ELSE [raw |-> << >>, dataPoints |-> << >>]

\* point.position?.x of an array entry
NestedCoord(row, axis) ==
    LET p == Get(row, S_position)
    IN  IF p.t = "pos" THEN (IF axis = "x" THEN p.x ELSE p.z) ELSE Undef

\* An entry on which a property read throws a TypeError
Throws(items) == \E i \in 1..Len(items) : items[i].t = "null"

\* The JSON branch; threw = TRUE when JSON.parse or a property read throws
ExtractJson(json) ==
    CASE json.k = "throw" -> [threw |-> TRUE, raw |-> << >>, dataPoints |-> << >>]
      [] json.k = "array" ->
            IF Throws(json.items)
            THEN [threw |-> TRUE, raw |-> << >>, dataPoints |-> << >>]
            ELSE LET GetX(row) == Get(row, S_x)
                     GetZ(row) == Get(row, S_z)
                 IN  [threw |-> FALSE, raw |-> PointsOf([k \in 1..Len(json.items) |-> GetX(json.items[k])],
                                       [k \in 1..Len(json.items) |-> GetZ(json.items[k])]),
                      dataPoints |-> json.items]
      [] json.k = "object" /\ json.tel = "array" ->
            IF Throws(json.items)
            THEN [threw |-> TRUE, raw |-> << >>, dataPoints |-> << >>]
            ELSE LET GetX(row) == NestedCoord(row, "x")
                     GetZ(row) == NestedCoord(row, "z")
                 IN  [threw |-> FALSE, raw |-> PointsOf([k \in 1..Len(json.items) |-> GetX(json.items[k])],
                                       [k \in 1..Len(json.items) |-> GetZ(json.items[k])]),
                      dataPoints |-> json.items]
      [] OTHER -> [threw |-> FALSE, raw |-> << >>, dataPoints |-> << >>]

Invalid(reason) ==
    [valid |-> FALSE, reason |-> reason, trackPoints |-> << >>, dataPoints |-> << >>]

\* extractTrackPointsFromTelemetry(telemetryData, format), copy v
extractTrackPointsFromTelemetry(v, text, format) ==
    IF format = "csv"
    THEN LET e == ExtractCsv(text.csv)
         IN  [valid |-> TRUE, reason |-> "",
              trackPoints |-> smoothTrackPoints(v, e.raw, WindowSize),
              dataPoints |-> e.dataPoints]
    ELSE LET e == ExtractJson(text.json)
         IN  IF e.threw
             THEN Invalid("Error extracting track data")
             ELSE [valid |-> TRUE, reason |-> "",
                   trackPoints |-> smoothTrackPoints(v, e.raw, WindowSize),
                   dataPoints |-> e.dataPoints]

\* The local trackPoints of the extractor when it reaches the smoothing
\* statement
PreSmoothing(text, format) ==
    IF format = "csv" THEN ExtractCsv(text.csv).raw ELSE ExtractJson(text.json).raw

-----------------------------------------------------------------------------
(* findProblemAreas *)

EvalStride == 10          \* i % 10
HarshBrake == 8           \* brake > 0.8
HarshDrop == 200          \* speedDrop > 20
OverlapBrake == 2         \* brake > 0.2
OverlapThrottle == 5      \* throttle > 0.5
UpshiftSpeed == 2000      \* speed > 200
UpshiftGear == 50         \* gear < 5
FlatNorm == 50            \* the normalized coordinate of a flat axis (copy B)

\* headers.find(h => keywords.some(k => h.toLowerCase().includes(k)))
getColumn(headers, keywords) ==
    LET Test(h) == \E k \in keywords : Includes(ToLowerCase(h), k)
    IN  Find(headers, [i \in 1..Len(headers) |-> Test(headers[i])])

Columns(headers) ==
    [speed    |-> getColumn(headers, {S_speed, S_velocity, S_kmh, S_mph}),
     throttle |-> getColumn(headers, {S_throttle, S_gas}),
     brake    |-> getColumn(headers, {S_brake}),
     gear     |-> getColumn(headers, {S_gear}),
     posX     |-> getColumn(headers, {S_position_x, S_x_pos, S_x, S_worldpositionx}),
     posY     |-> getColumn(headers, {S_position_z, S_z_pos, S_z, S_worldpositionz})]

\* a / b on fractions.  0/0 and NaN operands give NaN; the model divides a
\* nonzero number by zero nowhere (getNorm's numerator is 0 on a flat axis).
Div(a, b) ==
    IF IsNaN(a) \/ IsNaN(b) \/ b.n = 0 THEN NaN ELSE Frac(a.n * b.d, a.d * b.n)

\* q * 100
Times100(q) == IF IsNaN(q) THEN NaN ELSE Frac(q.n * 100, q.d)

\* copy A: ((value - min) / (max - min)) * 100
getNormA(value, allVals) ==
    LET min == Frac(MinSeq(allVals), 1)
        max == Frac(MaxSeq(allVals), 1)
    IN  Times100(Div(Sub(value, min), Sub(max, min)))

\* copy B: max > min ? ((value - min) / (max - min)) * 100 : 50
getNormB(value, allVals) ==
    LET min == Frac(MinSeq(allVals), 1)
        max == Frac(MaxSeq(allVals), 1)
    IN  IF MaxSeq(allVals) > MinSeq(allVals)
        THEN Times100(Div(Sub(value, min), Sub(max, min)))
        ELSE Frac(FlatNorm, 1)

getNorm(v, value, allVals) ==
    IF v = "A" THEN getNormA(value, allVals) ELSE getNormB(value, allVals)

Problem(position, description, severity, timeLost) ==
    [position |-> position, description |-> description, severity |-> severity,
     timeLost |-> timeLost]

NoTimeLost == -1

\* (speedDrop * 0.05).toFixed(2), in hundredths of a second (speedDrop in tenths)
HarshTimeLost(speedDrop) == (speedDrop.n + speedDrop.d) \div (2 * speedDrop.d)

\* A harsh-braking check that also asks for a throttle column, as the older
\* detection code did
HarshBrakingLegacy(v, cols, prev, curr, position) ==
    LET speedDrop == Sub(ToNumber(Get(prev, cols.speed)), ToNumber(Get(curr, cols.speed)))
        brake == ToNumber(Get(curr, cols.brake))
    IN  IF /\ cols.brake # NoColumn /\ cols.throttle # NoColumn /\ cols.speed # NoColumn
           /\ Gt(brake, HarshBrake) /\ Gt(speedDrop, HarshDrop)
        THEN <<Problem(position, "Harsh braking detected", "high",
                       IF v = "A" THEN NoTimeLost ELSE HarshTimeLost(speedDrop))>>
        ELSE << >>

\* A harsh-braking check that fires at the thresholds too
HarshBrakingInclusive(v, cols, prev, curr, position) ==
    LET speedDrop == Sub(ToNumber(Get(prev, cols.speed)), ToNumber(Get(curr, cols.speed)))
        brake == ToNumber(Get(curr, cols.brake))
    IN  IF ~Lt(brake, HarshBrake) /\ ~Lt(speedDrop, HarshDrop)
        THEN <<Problem(position, "Harsh braking detected", "high",
                       IF v = "A" THEN NoTimeLost ELSE HarshTimeLost(speedDrop))>>
        ELSE << >>

\* The harsh-braking check of row curr after row prev
HarshBraking(v, cols, prev, curr, position) ==
    LET speedDrop == Sub(ToNumber(Get(prev, cols.speed)), ToNumber(Get(curr, cols.speed)))
        brake == ToNumber(Get(curr, cols.brake))
    IN  IF Gt(brake, HarshBrake) /\ Gt(speedDrop, HarshDrop)
        THEN <<Problem(position, "Harsh braking detected", "high",
                       IF v = "A" THEN NoTimeLost ELSE HarshTimeLost(speedDrop))>>
        ELSE << >>

\* An overlap check chained after the harsh-braking one with else: it is
\* skipped when the brake is above the harsh-braking threshold
OverlapElse(v, cols, curr, position) ==
    LET brake == ToNumber(Get(curr, cols.brake))
        throttle == ToNumber(Get(curr, cols.throttle))
    IN  IF ~Gt(brake, HarshBrake) /\ Gt(brake, OverlapBrake) /\ Gt(throttle, OverlapThrottle)
        THEN <<Problem(position, "Overlapping throttle and brake", "medium",
                       IF v = "A" THEN NoTimeLost ELSE 20)>>
        ELSE << >>

\* The throttle and brake overlap check of row curr
Overlap(v, cols, curr, position) ==
    LET brake == ToNumber(Get(curr, cols.brake))
        throttle == ToNumber(Get(curr, cols.throttle))
    IN  IF Gt(brake, OverlapBrake) /\ Gt(throttle, OverlapThrottle)
        THEN <<Problem(position, "Overlapping throttle and brake", "medium",
                       IF v = "A" THEN NoTimeLost ELSE 20)>>
        ELSE << >>

\* The late-upshift check of row curr (copy B also asks for a gear column)
LateUpshift(v, cols, curr, position) ==
    LET speed == ToNumber(Get(curr, cols.speed))
        gear == ToNumber(Get(curr, cols.gear))
    IN  IF (v = "A" \/ cols.gear # NoColumn) /\ Gt(speed, UpshiftSpeed) /\ Lt(gear, UpshiftGear)
        THEN <<Problem(position, "Late upshift detected", "low",
                       IF v = "A" THEN NoTimeLost ELSE 10)>>
        ELSE << >>

\* An array hole: reading it gives undefined, and map() skips it
Hole == [t |-> "hole", keys |-> << >>, vals |-> << >>]

\* The argument of a call that passes no dataPoints
AbsentData == <<[t |-> "absent", keys |-> << >>, vals |-> << >>]>>

\* The most arguments the engine passes in one call: Math.min(...allVals)
\* throws a RangeError on a longer array (the engine's limit, scaled to the
\* tables of the model)
ArgLimit == 24

\* Math.min(...allVals) is NaN when the array has a hole
Sparse(dataPoints) == \E k \in 1..Len(dataPoints) : dataPoints[k].t = "hole"

\* getNorm on an array with a hole: copy A computes with NaN, copy B's
\* max > min is false
SparseNorm(v) == IF v = "A" THEN NaN ELSE Frac(FlatNorm, 1)

\* The problems pushed at loop index i (0-based)
ProblemsAt(v, dataPoints, cols, allX, allY, i) ==
    IF i % EvalStride # 0
    THEN << >>
    ELSE LET prev == dataPoints[i]
             curr == dataPoints[i + 1]
             position == IF Sparse(dataPoints)
                         THEN <<SparseNorm(v), SparseNorm(v)>>
                         ELSE <<getNorm(v, ToNumber(Get(curr, cols.posX)), allX),
                                getNorm(v, ToNumber(Get(curr, cols.posY)), allY)>>
         IN  HarshBraking(v, cols, prev, curr, position)
             \o Overlap(v, cols, curr, position)
             \o LateUpshift(v, cols, curr, position)

\* The statements of loop index i throw before any push: a property read on
\* prev or curr when it is a hole (TypeError), or getNorm's spread of an array
\* beyond the argument limit (RangeError)
ThrowsAt(dataPoints, i) ==
    /\ i % EvalStride = 0
    /\ \/ dataPoints[i].t = "hole"
       \/ dataPoints[i + 1].t = "hole"
       \/ Len(dataPoints) > ArgLimit

\* A loop that runs up to the last row: i < dataPoints.length
LoopToLast(dataPoints) ==
    LET n == Len(dataPoints)
        throwing == {i \in 1..(n - 2) : ThrowsAt(dataPoints, i)}
    IN  IF throwing = {} THEN n
        ELSE CHOOSE i \in throwing : \A j \in throwing : i <= j

\* The loop index at which the loop throws, or dataPoints.length - 1 (where
\* the loop ends) when it does not
LoopEnd(dataPoints) ==
    LET n == Len(dataPoints)
        throwing == {i \in 1..(n - 2) : ThrowsAt(dataPoints, i)}
    IN  IF throwing = {} THEN n - 1
        ELSE CHOOSE i \in throwing : \A j \in throwing : i <= j

\* for (let i = from; i < end; i++): the problems pushed
RECURSIVE DetectFrom(_, _, _, _, _, _, _)
DetectFrom(v, dataPoints, cols, allX, allY, i, end) ==
    IF i >= end
    THEN << >>
    ELSE ProblemsAt(v, dataPoints, cols, allX, allY, i)
         \o DetectFrom(v, dataPoints, cols, allX, allY, i + 1, end)

\* The try block on a non-empty array.  Object.keys throws on a first entry
\* that is null or undefined, and the map callbacks on a null entry; the loop
\* runs to its end or to the index that throws.
DetectRows(v, dataPoints) ==
    IF dataPoints[1].t \in {"null", "hole"} \/ Throws(dataPoints)
    THEN [threw |-> TRUE, list |-> << >>]
    ELSE LET cols == Columns(dataPoints[1].keys)
             allX == [k \in 1..Len(dataPoints) |-> OrZero(Get(dataPoints[k], cols.posX))]
             allY == [k \in 1..Len(dataPoints) |-> OrZero(Get(dataPoints[k], cols.posY))]
         IN  [threw |-> LoopEnd(dataPoints) < Len(dataPoints) - 1,
              list |-> DetectFrom(v, dataPoints, cols, allX, allY, 1,
                                  LoopEnd(dataPoints))]

\* A try block without the test for no data: dataPoints[0] is then undefined,
\* or read from undefined
TryDetectUnguarded(v, dataPoints) ==
    IF dataPoints = AbsentData \/ Len(dataPoints) = 0
    THEN [threw |-> TRUE, list |-> << >>]
    ELSE DetectRows(v, dataPoints)

\* The try block of findProblemAreas: whether it threw, and the content of
\* `problems` when it returned or threw
TryDetect(v, dataPoints) ==
    IF dataPoints = AbsentData \/ Len(dataPoints) = 0
    THEN [threw |-> FALSE, list |-> << >>]
    ELSE DetectRows(v, dataPoints)

\* A catch that returns the problems pushed so far
findProblemAreasKeeping(v, dataPoints) == TryDetect(v, dataPoints).list

\* return problems at the end of the try block, return [] in the catch
Caught(try) == IF try.threw THEN << >> ELSE try.list

\* findProblemAreas(dataPoints, format), copy v
findProblemAreas(v, dataPoints) == Caught(TryDetect(v, dataPoints))

-----------------------------------------------------------------------------
(* The checksum of the payload and the seeded pseudo-random numbers (copy A) *)

HashStride == 100
HashLimit == 1000

\* The printable ASCII characters, from code 32 (codes 92 and 96 by name)
Ascii == <<
    " ","!","\"","#","$","%","&","'","(",")","*","+",",","-",".","/",
    "0","1","2","3","4","5","6","7","8","9",":",";","<","=",">","?",
    "@","A","B","C","D","E","F","G","H","I","J","K","L","M","N","O",
    "P","Q","R","S","T","U","V","W","X","Y","Z","[","backslash","]","^","_",
    "backtick","a","b","c","d","e","f","g","h","i","j","k","l","m","n","o",
    "p","q","r","s","t","u","v","w","x","y","z","{","|","}","~" >>

\* String.prototype.charCodeAt of a one-character string
CharCode(c) == 31 + (CHOOSE k \in 1..Len(Ascii) : Ascii[k] = c)

\* telemetryData.charAt(i) for the indices the checksum reads
CharAt(text, i) == IF i = 0 THEN text.head[1] ELSE text.samples[i \div HashStride]

\* The decimal digits of n >= 0, most significant first
RECURSIVE Digits(_)
Digits(n) == IF n < 10 THEN <<n>> ELSE Append(Digits(n \div 10), n % 10)

\* for (i = from; i < Math.min(length, 1000); i += 100) hash += charCodeAt(i):
\* the digit characters appended, as digits
RECURSIVE HashFrom(_, _)
HashFrom(text, i) ==
    IF i >= Min(text.len, HashLimit) THEN << >>
    ELSE Digits(CharCode(CharAt(text, i))) \o HashFrom(text, i + HashStride)

\* A checksum that also takes in the length of the text
telemetryHashWithLength(text) == HashFrom(text, 0) \o Digits(text.len)

telemetryHash(text) == HashFrom(text, 0)

\* A seed taken from the clock instead of the text
SeedFromClock(text) == now \div 10

\* The sum of the character codes of the checksum's digit characters
Seed(text) ==
    LET h == telemetryHash(text)
    IN  SumSeq([k \in 1..Len(h) |-> CharCode(Ascii[17]) + h[k]])

\* floor(frac(Math.sin(k) * 10000) * 10^5) for k = 0 .. 1799, where
\* frac(x) = x - Math.floor(x), computed in IEEE double arithmetic
SinFracTable == <<
    0, 70984, 97426, 20008, 97504, 75725, 84501, 86598, 58246, 18485, 78889, 9793,
    27081, 67036, 7355, 87840, 96683, 2508, 12753, 77209, 45250, 55638, 48690, 79595,
    21637, 48249, 58450, 75928, 5788, 66115, 68375, 62354, 26681, 11860, 82686, 17330,
    21146, 61866, 68578, 95386, 13160, 77331, 78452, 25257, 1925, 3524, 88347, 73122,
    45338, 47347, 25146, 29175, 27592, 25150, 10951, 44826, 48997, 64755, 72648, 38007,
    89378, 82229, 19303, 55700, 26038, 28679, 48845, 80021, 72319, 15186, 90681, 54653,
    23362, 28043, 53739, 18364, 7636, 20158, 78455, 87331, 11346, 12005, 28782, 64461,
    90320, 24380, 41552, 82163, 98302, 69405, 96663, 87511, 33930, 17858, 48014, 61714,
    87745, 7739, 18128, 93165, 34358, 25787, 26791, 88631, 77596, 64716, 57499, 81744,
    18505, 42606, 57321, 48551, 4395, 18094, 80388, 35334, 61393, 2059, 47830, 95898,
    11184, 15224, 13153, 96509, 13013, 59540, 90825, 30067, 37710, 26607, 94049, 96612,
    83587, 65756, 24816, 68686, 66793, 85545, 47740, 80131, 39659, 71365, 4992, 54639,
    78406, 45162, 69173, 44021, 66605, 51351, 23570, 49881, 20523, 580, 79662, 88017,
    15381, 51457, 24096, 19731, 25258, 92214, 49649, 89824, 32778, 97279, 91563, 49813,
    26711, 132, 49455, 90867, 59140, 89467, 38025, 65404, 52236, 89787, 75335, 22167,
    47364, 48599, 18934, 80408, 84383, 21180, 76062, 28976, 76330, 17953, 99278, 8548,
    61642, 43425, 13670, 54667, 30055, 5842, 21408, 1163, 2702, 9749, 18406, 9700,
    20359, 2492, 58096, 94972, 67930, 66641, 18518, 52146, 52906, 29380, 99451, 45621,
    58488, 18390, 75472, 85258, 98712, 38797, 50838, 53485, 79002, 5121, 56182, 58597,
    23062, 62369, 35795, 15810, 23276, 39281, 16691, 86640, 67910, 42130, 23886, 90681,
    45154, 61713, 88092, 90651, 63700, 87436, 59999, 7185, 52119, 36806, 71980, 6139,
    12211, 23728, 98898, 8365, 91965, 42825, 35626, 93183, 39703, 18790, 8290, 52814,
    17486, 10170, 54026, 68177, 64988, 53119, 54053, 10818, 56938, 154, 88593, 14674,
    14339, 4313, 21091, 82787, 90579, 48563, 50235, 52519, 63968, 71590, 85241, 59051,
    95629, 78979, 45633, 14225, 25981, 99001, 90010, 18088, 61250, 69055, 37629, 23278,
    44160, 35950, 52831, 32504, 6803, 96058, 38286, 64635, 3036, 1374, 87688, 71785,
    8524, 90509, 7093, 33264, 87348, 39788, 38794, 25004, 44571, 8265, 12259, 1533,
    34780, 63726, 88665, 34805, 84734, 38949, 18370, 8851, 95658, 78833, 72149, 32948,
    47405, 92848, 10803, 25551, 10740, 3233, 39682, 1644, 9660, 4182, 45950, 62632,
    63872, 55558, 67174, 17208, 49850, 9970, 54697, 69855, 12728, 15118, 9834, 22198,
    15723, 86554, 90675, 46139, 8980, 46403, 90072, 47480, 5608, 88522, 35060, 32184,
    5786, 67341, 92986, 42448, 60872, 81452, 36465, 65574, 21870, 22048, 32878, 23228,
    56433, 26973, 10070, 48171, 88540, 42893, 9910, 82710, 15060, 2631, 96576, 6944,
    52431, 33604, 58008, 67935, 80640, 24680, 56790, 73957, 43591, 45765, 48452, 77321,
    2531, 14047, 54505, 25282, 8119, 23759, 85236, 39330, 25549, 60393, 14580, 62149,
    88275, 81287, 35586, 14412, 54868, 90227, 54662, 5794, 94148, 41083, 53849, 67514,
    80775, 47402, 39676, 91981, 64581, 42590, 28017, 30179, 5293, 70012, 661, 71571,
    15215, 16843, 42462, 84953, 72572, 22761, 16274, 17693, 20149, 6568, 5633, 39646,
    47324, 70146, 34948, 50945, 42546, 21806, 88630, 70175, 74787, 72792, 66597, 81859,
    51904, 936, 74487, 67894, 19768, 46467, 76113, 64273, 86242, 12974, 30257, 89783,
    16713, 80718, 62928, 83176, 2966, 17021, 85776, 86311, 19326, 89165, 61340, 51671,
    4380, 22909, 98226, 66303, 56720, 19393, 43627, 95333, 28194, 28296, 79886, 61760,
    55392, 55350, 20596, 68653, 17246, 50423, 26667, 70400, 18494, 57650, 90592, 4151,
    29241, 44126, 81993, 42992, 4720, 34826, 76704, 75553, 75797, 22269, 2648, 62128,
    39999, 72547, 16553, 17695, 95761, 39116, 7901, 70675, 40825, 51598, 98324, 22102,
    7095, 48006, 68757, 97150, 55656, 98722, 15681, 66539, 62797, 64872, 15922, 59621,
    12411, 8640, 13052, 82610, 60164, 63767, 1124, 9162, 18585, 35157, 76660, 8162,
    35890, 8125, 74113, 48825, 46231, 72462, 48416, 63155, 10959, 34599, 96275, 71261,
    47221, 64080, 76616, 38606, 83804, 14242, 20517, 83943, 66086, 87948, 81391, 49955,
    34590, 81843, 37902, 60077, 63569, 54284, 80031, 45025, 56962, 41909, 23092, 21149,
    82448, 22608, 4135, 77506, 83886, 20754, 65317, 64210, 79334, 27991, 17628, 9233,
    32477, 36485, 1378, 82307, 10432, 1276, 28300, 52539, 76324, 61353, 61948, 52184,
    35312, 16272, 68683, 50585, 28472, 34818, 81997, 58650, 69829, 77975, 42062, 37205,
    56611, 27571, 18323, 26717, 47501, 44703, 54214, 88761, 90886, 37412, 97588, 3738,
    21300, 2207, 53200, 15506, 34538, 89497, 2440, 56505, 39049, 19488, 62583, 15568,
    33029, 70773, 16066, 67050, 85598, 28147, 58354, 8208, 97431, 63143, 46632, 20691,
    89001, 84278, 71136, 28186, 66155, 87341, 23614, 92793, 40921, 88783, 36177, 6460,
    80552, 11508, 3933, 88278, 91022, 11341, 79353, 82398, 27055, 80900, 45580, 66360,
    889, 87672, 23791, 90471, 70523, 26584, 32983, 58854, 73385, 41374, 63086, 20306,
    77485, 61590, 60288, 3557, 72336, 60322, 58098, 92828, 42389, 32049, 49472, 63553,
    28303, 10062, 77957, 21744, 15597, 42038, 38947, 85920, 52564, 36817, 69851, 22615,
    88404, 47473, 47212, 8008, 97451, 58313, 47753, 21017, 77677, 17504, 76974, 11057,
    31525, 62848, 13433, 8013, 26158, 11460, 72950, 17806, 54339, 58725, 62204, 35193,
    62290, 13295, 6746, 65471, 83323, 73918, 17763, 69787, 60954, 46162, 438, 19006,
    79831, 91518, 31959, 66671, 59909, 15138, 49661, 94768, 88578, 48806, 98856, 75076,
    28862, 36020, 65048, 83660, 64093, 73936, 57333, 18289, 26739, 33315, 4692, 58832,
    86036, 79503, 49321, 65033, 18421, 16514, 58553, 162, 69648, 27562, 96164, 36997,
    6462, 5734, 76865, 51962, 68735, 95568, 86347, 79564, 32914, 41470, 20511, 50191,
    98888, 40994, 41142, 7818, 97092, 18255, 31887, 78097, 17737, 15689, 2816, 58405,
    59235, 51875, 60269, 12289, 60896, 42975, 7421, 7032, 47736, 44074, 95935, 67458,
    71907, 31835, 43790, 95589, 96851, 8633, 29864, 5693, 6440, 23415, 27731, 15192,
    56219, 58107, 30927, 98448, 74233, 96203, 9873, 37864, 65728, 8925, 42168, 64926,
    19489, 58648, 43818, 11554, 60601, 99081, 66438, 49303, 62099, 46188, 81235, 93278,
    38782, 96778, 22183, 48273, 6005, 3834, 16602, 30533, 16880, 1488, 12373, 18689,
    46429, 62029, 11285, 69750, 77868, 22942, 71411, 64628, 27924, 33510, 29368, 70732,
    3274, 60087, 5279, 30980, 56585, 13486, 50700, 69333, 61310, 72731, 32076, 69922,
    54056, 88050, 61314, 60337, 71589, 51706, 15745, 61576, 65229, 99627, 49443, 78156,
    55622, 57544, 15200, 59691, 55329, 22191, 58765, 66758, 20999, 93281, 43784, 27268,
    15333, 368, 9050, 5456, 88307, 21407, 76812, 91536, 19621, 37552, 11935, 30731,
    67544, 49256, 64794, 24360, 28089, 63164, 94001, 47666, 94783, 84543, 92868, 95421,
    86511, 63226, 59368, 17600, 45118, 56378, 89568, 92221, 91401, 4058, 95680, 60344,
    89156, 90584, 77435, 37180, 23265, 7926, 30642, 76255, 13400, 51813, 41890, 42898,
    41770, 21332, 68358, 56027, 22955, 33087, 35009, 38214, 94622, 10833, 82595, 33405,
    25351, 32519, 26848, 39247, 79540, 90597, 66541, 58399, 5574, 75509, 7735, 61866,
    83375, 71840, 42829, 85950, 8191, 42327, 62057, 37882, 20167, 3232, 62862, 27427,
    56014, 11506, 75060, 14627, 66619, 73470, 71269, 82207, 92650, 32722, 99055, 59422,
    13056, 51237, 79633, 54430, 33767, 92838, 2343, 99944, 58612, 83281, 27785, 39120,
    5167, 8342, 87797, 53041, 27395, 83288, 56538, 94986, 84971, 50771, 9397, 54771,
    879, 71400, 18418, 97671, 50076, 56618, 9535, 35056, 22120, 9566, 80157, 40210,
    69520, 61603, 98618, 28665, 45226, 54915, 63912, 96988, 89802, 96603, 50901, 80282,
    80863, 89919, 22371, 27529, 33379, 17848, 93897, 41738, 68586, 39998, 62112, 83049,
    50494, 81264, 1530, 17670, 54920, 97879, 89344, 94054, 64391, 90421, 68911, 45052,
    80504, 47155, 11956, 57716, 24538, 7656, 48972, 50739, 16617, 12548, 25465, 87587,
    3711, 87151, 57894, 64043, 53168, 73840, 53868, 16578, 31726, 96749, 41106, 19786,
    55142, 38528, 22188, 41555, 66798, 87873, 94977, 52048, 73296, 64109, 38530, 30727,
    98277, 17818, 82646, 99119, 93692, 98632, 17753, 85336, 12976, 71179, 64639, 93142,
    66309, 11321, 84460, 43860, 2412, 22717, 53431, 64313, 72256, 28575, 75926, 55960,
    3228, 87656, 93547, 64026, 82110, 8030, 57070, 80416, 29380, 47539, 9576, 33022,
    96891, 54366, 91900, 63589, 94133, 26471, 63420, 35061, 20135, 15189, 89180, 65232,
    83790, 95372, 69221, 23808, 48923, 24953, 62115, 39161, 50552, 26107, 89494, 17132,
    21393, 88598, 84231, 64208, 54943, 78233, 12894, 68166, 40156, 42811, 74909, 23238,
    27706, 18492, 68877, 13191, 61553, 47010, 52901, 10596, 56034, 41962, 58396, 21146,
    11244, 62971, 72150, 31673, 25628, 94536, 8723, 87608, 29737, 80079, 27654, 65720,
    89683, 4667, 98932, 93691, 80469, 57557, 66861, 68024, 68039, 6753, 19672, 92663,
    55791, 35075, 63648, 96143, 64221, 44112, 2879, 94729, 64143, 22901, 75240, 21956,
    57104, 38977, 48922, 68737, 41483, 53235, 99990, 28119, 22775, 68208, 60738, 21662,
    19925, 60348, 40957, 61415, 26631, 52287, 97454, 16292, 36495, 6444, 69657, 54740,
    59341, 11208, 19262, 93920, 36820, 73823, 61656, 55091, 78747, 97957, 22999, 35435,
    75792, 96418, 82337, 78914, 86991, 16051, 74966, 10626, 21456, 25387, 94317, 1911,
    50577, 90846, 22218, 87825, 26779, 36757, 25269, 6222, 8229, 17053, 85464, 81771,
    69613, 11628, 83080, 80711, 90505, 26332, 68878, 20409, 90528, 92590, 49315, 92116,
    22199, 86529, 12174, 56925, 27689, 65634, 85729, 81640, 75336, 4631, 18116, 76113,
    91762, 92774, 66958, 83183, 60010, 8092, 85688, 4593, 80745, 57541, 30618, 3507,
    21217, 63177, 61901, 86641, 95779, 69022, 41729, 43751, 53877, 57834, 89048, 64128,
    52762, 60316, 91204, 88890, 77468, 7224, 59548, 59823, 18633, 41670, 73312, 3616,
    6427, 36771, 46583, 30420, 63416, 73701, 14999, 86546, 73911, 47939, 50216, 43680,
    78145, 88853, 19558, 71265, 29501, 56150, 30736, 78323, 3961, 42006, 66860, 64306,
    87842, 20563, 9138, 42383, 74663, 90732, 19933, 71656, 24216, 4309, 31271, 58470,
    23675, 60622, 52401, 94169, 20577, 36126, 47242, 636, 18695, 9935, 278, 77497,
    40695, 8620, 77719, 10334, 28835, 76451, 23835, 96234, 81213, 69336, 92377, 96424,
    94449, 89588, 28118, 15354, 72790, 67767, 36448, 40696, 89717, 75921, 86982, 72654,
    27265, 10251, 80363, 8368, 5724, 54162, 83736, 27530, 32737, 58281, 30229, 92197,
    22483, 66860, 36230, 53468, 68157, 83598, 41501, 18658, 7931, 14423, 10959, 47501,
    51880, 73255, 87011, 45027, 74541, 51115, 518, 74575, 73280, 60854, 28311, 17595,
    25397, 34967, 67039, 17385, 6732, 39279, 74451, 29509, 7028, 16416, 75020, 79300,
    98043, 5661, 43289, 94542, 8319, 5687, 95294, 50868, 18804, 30915, 42629, 67612,
    58400, 56140, 64911, 49752, 65982, 96184, 19344, 97974, 38338, 33339, 39033, 94307,
    63428, 35669, 40279, 244, 63776, 73027, 36862, 87962, 59381, 38101, 55083, 96041,
    44239, 14754, 70642, 7853, 9351, 9349, 8637, 89443, 1833, 54525, 4646, 58077,
    54157, 8310, 49769, 67061, 3994, 25420, 68882, 48579, 92939, 25845, 65142, 66696,
    15800, 59018, 7448, 61579, 83450, 51732, 79289, 48383, 53141, 24380, 7889, 67967,
    63809, 29269, 59317, 29282, 72258, 71653, 97103, 78427, 7617, 6395, 74553, 2554,
    29690, 89273, 85999, 43746, 17658, 96417, 62553, 16797, 74061, 71600, 95737, 37574,
    72510, 47587, 17519, 1891, 75209, 90904, 36804, 65474, 58435, 8075, 79788, 38047,
    82406, 23509, 7266, 11624, 48918, 18538, 99502, 72304, 71342, 32821, 1213, 44302,
    61452, 30095, 89703, 66397, 2269, 18186, 85085, 8442, 63557, 56507, 11939, 47110,
    45983, 26934, 11792, 69463, 71910, 993, 35190, 59126, 18817, 94715, 91158, 33077,
    8569, 49419, 74484, 42136, 95034, 48542, 40822, 27007, 30350, 43788, 22548, 88462,
    55961, 19336, 11204, 7830, 84429, 87004, 68086, 35681, 24305, 7896, 29564, 61897,
    33616, 54039, 1045, 20314, 6523, 11468, 91337, 4394, 87175, 41619, 47174, 14929,
    51653, 1898, 70026, 28358, 37383, 64187, 92501, 47675, 96298, 99395, 72749, 92806,
    26838, 85641, 94949, 27995, 22378, 7739, 24815, 83385, 79441, 27869, 39011, 69145,
    1218, 95217, 65461, 5990, 58069, 99514, 13444, 66966, 7102, 17799, 21142, 32931,
    54218, 54673, 29120, 20404, 41503, 35952, 63550, 52147, 17309, 79707, 2052, 41831,
    22687, 53476, 24337, 51226, 41599, 38748, 26146, 13674, 55186, 24624, 46509, 40444,
    53541, 10578, 13849, 939, 24487, 45138, 78871, 50870, 19949, 60936, 98855, 57715,
    59914, 99406, 38183, 83733, 28188, 13237, 43992, 41026, 2334, 86735, 30260, 99900,
    9137, 5361, 55807, 80165, 72961, 39786, 32982, 96031, 69219, 60138, 89539, 49278,
    47589, 65305, 29206, 1005, 81509, 70776, 99779, 63694, 18846, 47571, 89528, 45724,
    96195, 72046, 26668, 47653, 38954, 87714, 73772, 93252, 26925, 2025, 704, 14418 >>

SinFrac(k) == SinFracTable[k + 1]

\* getRandom(min, max) = min + frac(sin(seed + problems.length) * 10000) * (max - min),
\* with min and max given in tenths and the result in millionths
getRandom(seed, nProblems, min, max) ==
    min * 100000 + SinFrac(seed + nProblems) * (max - min)

Million == 1000000

\* Math.floor of a number of millionths
Floor(micro) == micro \div Million

\* toFixed(3) and toFixed(2) of a number of millionths, in thousandths and hundredths
ToFixed3(micro) == (micro + 500) \div 1000
ToFixed2(micro) == (micro + 5000) \div 10000

-----------------------------------------------------------------------------
(* The synthetic report (copy A) *)

S_Nurburgring == <<"N","ü","r","b","u","r","g","r","i","n","g">>
S_Spa == <<"S","p","a">>
S_Monza == <<"M","o","n","z","a">>

TrackLineMin == 10      \* trackPoints.length > 10
DefaultTrackLine ==
    [k \in 1..11 |-> <<Frac((k - 1) * 10, 1), Frac((k - 1) * 5, 1)>>]

sectorCount(track) ==
    IF Includes(track, S_Nurburgring) THEN 4 ELSE IF Includes(track, S_Spa) THEN 3 ELSE 2

turnCount(track) ==
    IF Includes(track, S_Nurburgring) THEN 16 ELSE IF Includes(track, S_Spa) THEN 19 ELSE 10

\* One mistake of sector i, index j
Mistake(seed, n, i, j) ==
    [metres   |-> Floor(5 * Million + getRandom(seed, n, 0, 200)),
     late     |-> getRandom(seed, n, 0, 10) > 500000,
     turn     |-> i * 2 + j,
     from     |-> Floor(80 * Million + getRandom(seed, n, 0, 500)),
     force    |-> Floor(70 * Million + getRandom(seed, n, 0, 200)),
     timeLost |-> ToFixed2(100000 + getRandom(seed, n, 0, 5))]

Sector(seed, n, i) ==
    LET mistakeCount == Floor(getRandom(seed, n, 0, 30))
    IN  [number |-> i,
         time |-> ToFixed3(20 * Million + getRandom(seed, n, 0, 150)),
         mistakes |-> [j \in 1..mistakeCount |-> Mistake(seed, n, i, j - 1)]]

\* The five recommendations, by the numbers they embed
Recommendations(seed, n, track) ==
    LET turn == Floor(1 * Million + getRandom(seed, n, 0, 10 * turnCount(track)))
    IN  << [text |-> "speed", k |-> turn],
           [text |-> IF Includes(track, S_Spa) THEN "Eau Rouge" ELSE "technicznej",
            k |-> Floor(70 * Million + getRandom(seed, n, 0, 200))],
           [text |-> "braking", k |-> turn],
           [text |-> "line", k |-> turn],
           [text |-> "overlap", k |-> turn] >>

\* A placeholder error, naming Turn floor(base + getRandom(0, 3))
DefaultError(seed, n, position, description, severity, base) ==
    [position |-> position, description |-> description, severity |-> severity,
     timeLost |-> NoTimeLost,
     turn |-> Floor(base * Million + getRandom(seed, n, 0, 30))]

\* The three placeholder errors (descriptions without their diacritics)
DefaultErrors(seed, n) ==
    << DefaultError(seed, n, <<Frac(30, 1), Frac(15, 1)>>,
                    "Hamowanie 20m za pozno", "high", 1),
       DefaultError(seed, n, <<Frac(60, 1), Frac(30, 1)>>,
                    "Za malo gazu w wyjsciu z zakretu", "medium", 4),
       DefaultError(seed, n, <<Frac(90, 1), Frac(45, 1)>>,
                    "Niewlasciwa linia jazdy", "low", 7) >>

\* The result object of the synthetic path
Synthetic(text, track, trackPoints, probs) ==
    LET seed == Seed(text)
        n == Len(probs)
        recs == Recommendations(seed, n, track)
    IN  [kind |-> "synthetic",
         lapTime |-> <<Floor(1 * Million + getRandom(seed, n, 0, 20)),
                       Floor(30 * Million + getRandom(seed, n, 0, 300)),
                       Floor(getRandom(seed, n, 0, 9990))>>,
         topSpeed |-> Floor(240 * Million + getRandom(seed, n, 0, 500)),
         throttleUsage |-> Floor(70 * Million + getRandom(seed, n, 0, 200)),
         turns |-> turnCount(track),
         entry |-> Floor(120 * Million + getRandom(seed, n, 0, 800)),
         exit |-> Floor(140 * Million + getRandom(seed, n, 0, 700)),
         brakingPoint |-> <<Floor(80 * Million + getRandom(seed, n, 0, 500)),
                            getRandom(seed, n, 0, 10) > 700000>>,
         trackLine |-> IF Len(trackPoints) > TrackLineMin THEN trackPoints
                       ELSE DefaultTrackLine,
         errors |-> IF n > 0 THEN probs ELSE DefaultErrors(seed, n),
         sectors |-> [i \in 1..sectorCount(track) |-> Sector(seed, n, i)],
         recommendations |-> SubSeq(recs, 1, 3 + Floor(getRandom(seed, n, 0, 20)))]

-----------------------------------------------------------------------------
(* The AI collaborator's answers *)

AiTrackLine == <<<<Frac(1, 1), Frac(2, 1)>>, <<Frac(3, 1), Frac(4, 1)>>>>
AiErrors == <<Problem(<<Frac(5, 1), Frac(5, 1)>>, "from the AI", "low", NoTimeLost)>>
\* The object the reply's content parses to: whether it has a trackMap,
\* whether the trackMap has a trackLine and an errors field (and their values),
\* and whether it has the lapAnalysis and brakingPoints objects copy B reads
AiObject(hasTrackMap, hasTrackLine, hasErrors, lapAnalysis, brakingPoints) ==
    [hasTrackMap |-> hasTrackMap,
     hasTrackLine |-> hasTrackLine, trackLine |-> AiTrackLine,
     hasErrors |-> hasErrors, errors |-> AiErrors,
     lapAnalysis |-> lapAnalysis, brakingPoints |-> brakingPoints]

NoObject == AiObject(FALSE, FALSE, FALSE, FALSE, FALSE)

AiObjects ==
    << AiObject(TRUE, TRUE, TRUE, TRUE, TRUE),
       AiObject(TRUE, FALSE, FALSE, TRUE, TRUE),
       NoObject >>

\* How the fetch settles: it rejects (network error) or it resolves with a
\* response whose ok flag is given; copy A passes timeout: 30000, on which the
\* fetch rejects when no answer came
FetchOutcomes == {"reject", "notok", "ok"}

\* The body of an ok response: not JSON; JSON without choices; content that
\* is not JSON; content that parses to an object
AiBodies ==
    << [k |-> "unparsable", obj |-> NoObject],
       [k |-> "nochoices", obj |-> NoObject],
       [k |-> "malformed", obj |-> NoObject] >>
    \o [i \in 1..Len(AiObjects) |-> [k |-> "object", obj |-> AiObjects[i]]]

-----------------------------------------------------------------------------
(* analyzeTelemetryWithAI *)

NoData == [kind |-> "none"]
Failure(reason) == [valid |-> FALSE, reason |-> reason, data |-> NoData]
Success(data) == [valid |-> TRUE, reason |-> "", data |-> data]
Pending == [valid |-> FALSE, reason |-> "pending", data |-> NoData]

NoTrack == <<"undefined">>

\* A pipeline that runs the detector on whatever the extraction returned
LocalDetectingAlways(v, text) ==
    LET format == Sniff(text)
        e == extractTrackPointsFromTelemetry(v, text, format)
    IN  [parser |-> format, extraction |-> e,
         problems |-> [ran |-> TRUE, list |-> findProblemAreas(v, e.dataPoints)]]

\* The code from the sniff to the detector: the format tag, the extraction
\* and, when the extraction is valid, the problems
\* A pipeline whose detector keeps its problems in one list for the whole
\* server: what the requests in flight have pushed is still in it
LocalShared(v, text) ==
    LET format == Sniff(text)
        e == extractTrackPointsFromTelemetry(v, text, format)
        InFlight(r) == pc[r] \in {"fetch", "body"}
        left == (IF InFlight("r1") THEN problems["r1"].list ELSE << >>)
                \o (IF InFlight("r2") THEN problems["r2"].list ELSE << >>)
    IN  [parser |-> format, extraction |-> e,
         problems |-> IF e.valid
                      THEN [ran |-> TRUE, list |-> left \o findProblemAreas(v, e.dataPoints)]
                      ELSE [ran |-> FALSE, list |-> << >>]]

Local(v, text) ==
    LET format == Sniff(text)
        e == extractTrackPointsFromTelemetry(v, text, format)
    IN  [parser |-> format, extraction |-> e,
         problems |-> IF e.valid
                      THEN [ran |-> TRUE, list |-> findProblemAreas(v, e.dataPoints)]
                      ELSE [ran |-> FALSE, list |-> << >>]]

\* copy A, the synthetic path; track.includes throws when track is undefined
SyntheticResult(text, track, trackPoints, probs) ==
    IF track = NoTrack
    THEN Failure("Blad analizy")
    ELSE Success(Synthetic(text, track, trackPoints, probs))

\* A merge in which the reply's fields win over the local data
MergeReplyFirst(obj, trackPoints, probs) ==
    [kind |-> "ai",
     trackLine |-> IF obj.hasTrackMap /\ obj.hasTrackLine THEN obj.trackLine
                   ELSE trackPoints,
     errors |-> IF obj.hasTrackMap /\ obj.hasErrors THEN obj.errors ELSE probs,
     id |-> 0]

\* copy A, the merge of a parsed reply with the local data
MergeA(obj, trackPoints, probs) ==
    [kind |-> "ai",
     trackLine |-> IF Len(trackPoints) > TrackLineMin THEN trackPoints
                   ELSE IF obj.hasTrackMap /\ obj.hasTrackLine THEN obj.trackLine
                   ELSE << >>,
     errors |-> IF Len(probs) > 0 THEN probs
                ELSE IF obj.hasTrackMap /\ obj.hasErrors THEN obj.errors
                ELSE << >>,
     id |-> 0]

\* copy A, after the fetch settled with outcome o: the result, or Pending
\* while response.json() is awaited
AfterFetchA(o, text, track, trackPoints, probs) ==
    CASE o \in {"reject", "timeout"} -> Failure("Blad analizy")
      [] o = "notok" -> SyntheticResult(text, track, trackPoints, probs)
      [] OTHER -> Pending

\* copy A, after response.json() settled with body b
AfterBodyA(b, text, track, trackPoints, probs) ==
    CASE b.k = "unparsable" -> Failure("Blad analizy")
      [] b.k \in {"nochoices", "malformed"} ->
            SyntheticResult(text, track, trackPoints, probs)
      [] OTHER -> Success(MergeA(b.obj, trackPoints, probs))

\* copy B, after the fetch settled with outcome o
AfterFetchB(o) ==
    CASE o \in {"reject", "notok"} -> Failure("AI analysis failed")
      [] OTHER -> Pending

\* copy B, the result formatted from the analysis
FormatB(obj, trackPoints, probs, time) ==
    [kind |-> "ai", trackLine |-> trackPoints, errors |-> probs, id |-> time]

\* copy B, after response.json() settled with body b; reading a field of a
\* missing lapAnalysis or brakingPoints throws
AfterBodyB(b, trackPoints, probs, time) ==
    IF b.k = "object" /\ b.obj.lapAnalysis /\ b.obj.brakingPoints
    THEN Success(FormatB(b.obj, trackPoints, probs, time))
    ELSE Failure("AI analysis failed")

-----------------------------------------------------------------------------
(* Requests *)

Reqs == {"r1", "r2"}

TickStep == 30
MaxClock == 60

Ips == {"ip1", "ip2"}       \* the addresses requests come from
RATE_LIMIT_WINDOW == 60     \* 60 * 1000 ms, in seconds
MAX_REQUESTS == 5

Exts == {"csv", "json"}
Tracks == <<S_Spa, S_Monza, NoTrack>>
Shapes == {"upload", "nofile", "noauth"}

NoText == Payload(<< >>, 0, << >>, JsonThrow)

\* A POST /analyze request: the bearer token's user ("none": no valid token),
\* whether a telemetry file is attached, the extension of its original name,
\* its content, and the track field (NoTrack when the field is missing)
Request(token, file, ext, text, track) ==
    [token |-> token, file |-> file, ext |-> ext, text |-> text, track |-> track,
     carClass |-> "GT3", game |-> "ACC", ip |-> "ip1"]

NoRequest == Request("none", FALSE, "csv", NoText, NoTrack)

\* The request of a given shape: an upload of pool[i] named *.ext for track
\* Tracks[t], a request without a file, or one without a valid token
RequestAt(pool, shape, i, ext, t) ==
    CASE shape = "upload" -> Request("u1", TRUE, ext, pool[i], Tracks[t])
      [] shape = "nofile" -> Request("u1", FALSE, "csv", NoText, S_Spa)
      [] OTHER            -> Request("none", TRUE, "csv", NoText, S_Spa)

NoProblems == [ran |-> FALSE, list |-> << >>]
NoExtraction == Invalid("not run")
\* What the collaborator answered: how the fetch settled, the kind of the body
\* and the object its content parsed to
NoReply == [fetch |-> "none", body |-> "none", obj |-> NoObject]
NoResponse == [status |-> 0, report |-> FALSE, data |-> NoData, reason |-> ""]

\* res.json(data), and res.status(code).json({.. reason})
Report(data) == [status |-> 200, report |-> TRUE, data |-> data, reason |-> ""]
Error(status, reason) ==
    [status |-> status, report |-> FALSE, data |-> NoData, reason |-> reason]

Terminal(res) == IF res.valid THEN "terminal_success" ELSE "terminal_error"

NoUnit == [fn |-> "none"]

\* The client before the page is loaded: nothing stored, nothing mounted.
\* user and analysisHistory tell whether the state holds a user (non-null) and
\* a non-empty history; profile[k] and history[k] are the fetches of mount
\* effect k; auth is the login or register call
Effects == {1, 2}
NoClient ==
    [mounted |-> FALSE, token |-> FALSE, user |-> FALSE, analysisHistory |-> FALSE,
     profile |-> [k \in Effects |-> "none"], history |-> [k \in Effects |-> "none"],
     auth |-> "idle"]

\* The POST /register requests, and the id crypto.randomUUID() gives each
Regs == {"g1", "g2", "g3"}
NewId == [g \in Regs |-> CASE g = "g1" -> "u2" [] g = "g2" -> "u3" [] OTHER -> "u4"]

\* The emails of the requests; the first is the one the stored user holds
Emails == <<"ann@pit", "bob@pit", "cy@pit">>

NoRegistration == [pc |-> "idle", email |-> "", status |-> 0]

\* The user the registration stores: stats at zero, no history
Registered(email) ==
    [email |-> email, sessions |-> 0, tracks |-> 0, cars |-> 0, hours |-> 0,
     history |-> << >>]

NewUser == Registered(Emails[1])

Init ==
    /\ ver \in {"A", "B"}
    /\ apiKey \in (IF ver = "A" THEN BOOLEAN ELSE {FALSE})
    /\ pc = [r \in Reqs |-> "idle"]
    /\ req = [r \in Reqs |-> NoRequest]
    /\ trace = [r \in Reqs |-> << >>]
    /\ parser = [r \in Reqs |-> "none"]
    /\ extraction = [r \in Reqs |-> NoExtraction]
    /\ problems = [r \in Reqs |-> NoProblems]
    /\ aiCalls = [r \in Reqs |-> 0]
    /\ aiReply = [r \in Reqs |-> NoReply]
    /\ result = [r \in Reqs |-> Pending]
    /\ http = [r \in Reqs |-> NoResponse]
    /\ uploads = {}
    /\ analysisRateLimit = [ip \in Ips |-> << >>]
    /\ users = [u \in {"u1"} |-> NewUser]
    /\ now = 0
    /\ unit = NoUnit
    /\ reg = [g \in Regs |-> NoRegistration]
    /\ client = NoClient

-----------------------------------------------------------------------------
(* POST /analyze, copy A *)

\* if (result.valid) res.json(result.data) else res.status(500).json(..)
RespondA(res) == IF res.valid THEN Report(res.data) ELSE Error(500, res.reason)

\* A handler that issues the AI call again when the analysis failed
FinishARetrying(r, res) ==
    IF res.valid
    THEN /\ result' = [result EXCEPT ![r] = res]
         /\ trace' = [trace EXCEPT ![r] = Append(@, Terminal(res))]
         /\ uploads' = uploads \ {r}
         /\ http' = [http EXCEPT ![r] = RespondA(res)]
         /\ pc' = [pc EXCEPT ![r] = "done"]
    ELSE /\ trace' = [trace EXCEPT ![r] = Append(@, "ai")]
         /\ pc' = [pc EXCEPT ![r] = "fetch"]
         /\ UNCHANGED <<result, uploads, http>>

\* The handler resumes with the result of analyzeTelemetryWithAI: it unlinks
\* the file and responds
FinishA(r, res) ==
    /\ result' = [result EXCEPT ![r] = res]
    /\ trace' = [trace EXCEPT ![r] = Append(@, Terminal(res))]
    /\ uploads' = uploads \ {r}
    /\ http' = [http EXCEPT ![r] = RespondA(res)]
    /\ pc' = [pc EXCEPT ![r] = "done"]

\* The handler from its start to its first await, or to its response
AnalyzeA(r, pool) ==
    /\ ver = "A"
    /\ pc[r] = "idle"
    /\ \E shape \in Shapes, i \in 1..Len(pool), ext \in Exts, t \in 1..Len(Tracks) :
       LET q == RequestAt(pool, shape, i, ext, t) IN
        /\ shape = "upload" \/ (i = 1 /\ ext = "csv" /\ t = 1)
        /\ req' = [req EXCEPT ![r] = q]
        /\ IF ~q.file
           THEN /\ http' = [http EXCEPT ![r] = Error(400, "No telemetry file uploaded.")]
                /\ trace' = [trace EXCEPT ![r] = <<"received", "terminal_error">>]
                /\ pc' = [pc EXCEPT ![r] = "done"]
                /\ UNCHANGED <<parser, extraction, problems, aiCalls, result, uploads>>
           ELSE LET loc == Local("A", q.text)
                    e == loc.extraction
                IN  /\ parser' = [parser EXCEPT ![r] = loc.parser]
                    /\ extraction' = [extraction EXCEPT ![r] = e]
                    /\ problems' = [problems EXCEPT ![r] = loc.problems]
                    /\ IF ~e.valid
                       THEN /\ result' = [result EXCEPT ![r] = Failure(e.reason)]
                            /\ trace' = [trace EXCEPT ![r] =
                                   <<"received", "extracting", "terminal_error">>]
                            /\ http' = [http EXCEPT ![r] = Error(500, e.reason)]
                            /\ pc' = [pc EXCEPT ![r] = "done"]
                            /\ UNCHANGED <<aiCalls, uploads>>
                       ELSE IF apiKey
                       THEN /\ aiCalls' = [aiCalls EXCEPT ![r] = @ + 1]
                            /\ trace' = [trace EXCEPT ![r] =
                                   <<"received", "extracting", "detecting",
                                     "assembling", "ai">>]
                            /\ uploads' = uploads \cup {r}
                            /\ pc' = [pc EXCEPT ![r] = "fetch"]
                            /\ UNCHANGED <<result, http>>
                       ELSE LET res == SyntheticResult(q.text, q.track, e.trackPoints,
                                                       loc.problems.list)
                            IN  /\ result' = [result EXCEPT ![r] = res]
                                /\ trace' = [trace EXCEPT ![r] =
                                       <<"received", "extracting", "detecting",
                                         "assembling", Terminal(res)>>]
                                /\ http' = [http EXCEPT ![r] = RespondA(res)]
                                /\ pc' = [pc EXCEPT ![r] = "done"]
                                /\ UNCHANGED <<aiCalls, uploads>>
    /\ UNCHANGED <<client, reg, unit, ver, apiKey, aiReply, analysisRateLimit, users, now>>

\* The pending fetch settles
FetchSettlesA(r) ==
    /\ ver = "A"
    /\ pc[r] = "fetch"
    /\ \E o \in FetchOutcomes :
        LET res == AfterFetchA(o, req[r].text, req[r].track,
                               extraction[r].trackPoints, problems[r].list)
        IN  /\ aiReply' = [aiReply EXCEPT ![r].fetch = o]
            /\ IF o = "ok"
               THEN /\ pc' = [pc EXCEPT ![r] = "body"]
                    /\ UNCHANGED <<result, trace, uploads, http>>
               ELSE FinishA(r, res)
    /\ UNCHANGED <<client, reg, unit, ver, apiKey, req, parser, extraction, problems, aiCalls,
                   analysisRateLimit, users, now>>

\* timeout: 30000 expires before the answer (or its body) arrived
FetchTimesOutA(r) ==
    /\ ver = "A"
    /\ pc[r] \in {"fetch", "body"}
    /\ aiReply' = [aiReply EXCEPT ![r].fetch = "timeout"]
    /\ FinishA(r, AfterFetchA("timeout", req[r].text, req[r].track,
                              extraction[r].trackPoints, problems[r].list))
    /\ UNCHANGED <<client, reg, unit, ver, apiKey, req, parser, extraction, problems, aiCalls,
                   analysisRateLimit, users, now>>

\* response.json() settles
BodySettlesA(r) ==
    /\ ver = "A"
    /\ pc[r] = "body"
    /\ \E k \in 1..Len(AiBodies) :
       LET b == AiBodies[k] IN
        /\ aiReply' = [aiReply EXCEPT ![r].body = b.k, ![r].obj = b.obj]
        /\ FinishA(r, AfterBodyA(b, req[r].text, req[r].track,
                                 extraction[r].trackPoints, problems[r].list))
    /\ UNCHANGED <<client, reg, unit, ver, apiKey, req, parser, extraction, problems, aiCalls,
                   analysisRateLimit, users, now>>

-----------------------------------------------------------------------------
(* POST /analyze, copy B *)

\* rateLimiter(ip): the accepted times still inside the window
recentRequests(ip) ==
    LET Recent(time) == now - time < RATE_LIMIT_WINDOW
    IN  SelectSeq(analysisRateLimit[ip], Recent)

\* A limiter that records the request before it tests the count
rateLimiterRecording(ip) ==
    [ok |-> Len(recentRequests(ip)) < MAX_REQUESTS,
     map |-> [analysisRateLimit EXCEPT ![ip] = Append(recentRequests(ip), now)]]

\* rateLimiter(ip): whether the request is accepted, and the map afterwards
rateLimiter(ip) ==
    IF Len(recentRequests(ip)) >= MAX_REQUESTS
    THEN [ok |-> FALSE, map |-> analysisRateLimit]
    ELSE [ok |-> TRUE,
          map |-> [analysisRateLimit EXCEPT ![ip] = Append(recentRequests(ip), now)]]

\* if (!result.valid) res.status(400).json(..) else res.json(result.data)
RespondB(res) == IF res.valid THEN Report(res.data) ELSE Error(400, res.reason)

\* history.some(h => h[field] === value)
InHistory(history, field, value) ==
    \E k \in 1..Len(history) : history[k][field] = value

\* An update that counts the track of every session, seen before or not
UpdatedUserCounting(u, q, data) ==
    [email |-> u.email,
     sessions |-> u.sessions + 1,
     tracks |-> u.tracks + 1,
     cars |-> IF InHistory(u.history, "carClass", q.carClass) THEN u.cars ELSE u.cars + 1,
     hours |-> u.hours + 1,
     history |-> <<[id |-> data.id, track |-> q.track, carClass |-> q.carClass]>>
                 \o u.history]

\* The update of req.user's stats and history after a valid result
UpdatedUser(u, q, data) ==
    [email |-> u.email,
     sessions |-> u.sessions + 1,
     tracks |-> IF InHistory(u.history, "track", q.track) THEN u.tracks ELSE u.tracks + 1,
     cars |-> IF InHistory(u.history, "carClass", q.carClass) THEN u.cars ELSE u.cars + 1,
     hours |-> u.hours + 1,
     history |-> <<[id |-> data.id, track |-> q.track, carClass |-> q.carClass]>>
                 \o u.history]

\* The handler resumes with the result of analyzeTelemetryWithAI: it unlinks
\* the file, and either answers 400 or updates the user and sends the report
FinishB(r, res) ==
    /\ result' = [result EXCEPT ![r] = res]
    /\ trace' = [trace EXCEPT ![r] = Append(@, Terminal(res))]
    /\ uploads' = uploads \ {r}
    /\ http' = [http EXCEPT ![r] = RespondB(res)]
    /\ users' = IF res.valid
                THEN [users EXCEPT ![req[r].token] = UpdatedUser(@, req[r], res.data)]
                ELSE users
    /\ pc' = [pc EXCEPT ![r] = "done"]

\* The auth middleware, the upload and the handler to its first await
AnalyzeB(r, pool) ==
    /\ ver = "B"
    /\ pc[r] = "idle"
    /\ \E shape \in Shapes, i \in 1..Len(pool), ext \in Exts, t \in 1..Len(Tracks) :
       LET q == RequestAt(pool, shape, i, ext, t) IN
        /\ shape = "upload" \/ (i = 1 /\ ext = "csv" /\ t = 1)
        /\ req' = [req EXCEPT ![r] = q]
        /\ IF q.token \notin DOMAIN users
           THEN /\ http' = [http EXCEPT ![r] = Error(401, "Authentication required")]
                /\ trace' = [trace EXCEPT ![r] = <<"received", "terminal_error">>]
                /\ pc' = [pc EXCEPT ![r] = "done"]
                /\ UNCHANGED <<parser, extraction, problems, aiCalls, result, uploads,
                               analysisRateLimit>>
           ELSE IF Len(recentRequests(q.ip)) >= MAX_REQUESTS
           THEN /\ http' = [http EXCEPT ![r] = Error(429, "Too many analysis requests")]
                /\ trace' = [trace EXCEPT ![r] = <<"received", "terminal_error">>]
                /\ pc' = [pc EXCEPT ![r] = "done"]
                /\ uploads' = IF q.file THEN uploads \cup {r} ELSE uploads
                /\ UNCHANGED <<parser, extraction, problems, aiCalls, result,
                               analysisRateLimit>>
           ELSE /\ analysisRateLimit' =
                      [analysisRateLimit EXCEPT ![q.ip] = Append(recentRequests(q.ip), now)]
                /\ IF ~q.file
                   THEN /\ http' = [http EXCEPT ![r] = Error(400, "No telemetry file uploaded")]
                        /\ trace' = [trace EXCEPT ![r] = <<"received", "terminal_error">>]
                        /\ pc' = [pc EXCEPT ![r] = "done"]
                        /\ UNCHANGED <<parser, extraction, problems, aiCalls, result,
                                       uploads>>
                   ELSE IF q.track = NoTrack
                   THEN /\ http' = [http EXCEPT ![r] = Error(400, "Missing required fields")]
                        /\ trace' = [trace EXCEPT ![r] = <<"received", "terminal_error">>]
                        /\ pc' = [pc EXCEPT ![r] = "done"]
                        /\ uploads' = uploads \cup {r}
                        /\ UNCHANGED <<parser, extraction, problems, aiCalls, result>>
                   ELSE LET loc == Local("B", q.text)
                            e == loc.extraction
                        IN  /\ parser' = [parser EXCEPT ![r] = loc.parser]
                            /\ extraction' = [extraction EXCEPT ![r] = e]
                            /\ problems' = [problems EXCEPT ![r] = loc.problems]
                            /\ IF ~e.valid
                               THEN /\ result' = [result EXCEPT ![r] = Failure(e.reason)]
                                    /\ trace' = [trace EXCEPT ![r] =
                                           <<"received", "extracting", "terminal_error">>]
                                    /\ http' = [http EXCEPT ![r] = Error(400, e.reason)]
                                    /\ pc' = [pc EXCEPT ![r] = "done"]
                                    /\ UNCHANGED <<aiCalls, uploads>>
                               ELSE /\ aiCalls' = [aiCalls EXCEPT ![r] = @ + 1]
                                    /\ trace' = [trace EXCEPT ![r] =
                                           <<"received", "extracting", "detecting",
                                             "assembling", "ai">>]
                                    /\ uploads' = uploads \cup {r}
                                    /\ pc' = [pc EXCEPT ![r] = "fetch"]
                                    /\ UNCHANGED <<result, http>>
    /\ UNCHANGED <<client, reg, unit, ver, apiKey, aiReply, users, now>>

\* The pending fetch settles; no timeout is passed, so only an answer ends the wait
FetchSettlesB(r) ==
    /\ ver = "B"
    /\ pc[r] = "fetch"
    /\ \E o \in FetchOutcomes :
        /\ aiReply' = [aiReply EXCEPT ![r].fetch = o]
        /\ IF o = "ok"
           THEN /\ pc' = [pc EXCEPT ![r] = "body"]
                /\ UNCHANGED <<result, trace, uploads, http, users>>
           ELSE FinishB(r, AfterFetchB(o))
    /\ UNCHANGED <<client, reg, unit, ver, apiKey, req, parser, extraction, problems, aiCalls,
                   analysisRateLimit, now>>

\* response.json() settles
BodySettlesB(r) ==
    /\ ver = "B"
    /\ pc[r] = "body"
    /\ \E k \in 1..Len(AiBodies) :
       LET b == AiBodies[k] IN
        /\ aiReply' = [aiReply EXCEPT ![r].body = b.k, ![r].obj = b.obj]
        /\ FinishB(r, AfterBodyB(b, extraction[r].trackPoints, problems[r].list, now))
    /\ UNCHANGED <<client, reg, unit, ver, apiKey, req, parser, extraction, problems, aiCalls,
                   analysisRateLimit, now>>

\* [...users.values()].some(u => u.email === email)
EmailTaken(email) == \E u \in DOMAIN users : users[u].email = email

\* users.set(id, user) on the Map
MapSet(map, id, user) ==
    [u \in DOMAIN map \cup {id} |-> IF u = id THEN user ELSE map[u]]

\* POST /register to its await: the email is looked up in the store, and the
\* request answers 400 or goes on to hash the password
RegisterB(g, e) ==
    /\ ver = "B"
    /\ reg[g].pc = "idle"
    /\ IF EmailTaken(Emails[e])
       THEN reg' = [reg EXCEPT ![g] = [pc |-> "done", email |-> Emails[e], status |-> 400]]
       ELSE reg' = [reg EXCEPT ![g] = [pc |-> "hashing", email |-> Emails[e], status |-> 0]]
    /\ UNCHANGED <<client, unit, ver, apiKey, pc, req, trace, parser, extraction, problems,
                   aiCalls, aiReply, result, http, uploads, analysisRateLimit, users, now>>

\* bcrypt.hash settles: the user is stored under a fresh id and the request
\* answers 201, or the hash rejected and the catch answers 500
HashSettles(g, ok) ==
    /\ ver = "B"
    /\ reg[g].pc = "hashing"
    /\ IF ok
       THEN /\ users' = MapSet(users, NewId[g], Registered(reg[g].email))
            /\ reg' = [reg EXCEPT ![g].pc = "done", ![g].status = 201]
       ELSE /\ reg' = [reg EXCEPT ![g].pc = "done", ![g].status = 500]
            /\ UNCHANGED users
    /\ UNCHANGED <<client, unit, ver, apiKey, pc, req, trace, parser, extraction, problems,
                   aiCalls, aiReply, result, http, uploads, analysisRateLimit, now>>

\* Time passes
Tick ==
    /\ now + TickStep <= MaxClock
    /\ now' = now + TickStep
    /\ UNCHANGED <<client, reg, unit, ver, apiKey, pc, req, trace, parser, extraction, problems, aiCalls,
                   aiReply, result, http, uploads, analysisRateLimit, users>>

-----------------------------------------------------------------------------
(* The request pipeline: one request, every payload of the pool *)

Next ==
    \/ AnalyzeA("r1", PipelinePayloads)
    \/ FetchSettlesA("r1")
    \/ FetchTimesOutA("r1")
    \/ BodySettlesA("r1")
    \/ AnalyzeB("r1", PipelinePayloads)
    \/ FetchSettlesB("r1")
    \/ BodySettlesB("r1")
    \/ Tick

Spec == Init /\ [][Next]_vars

-----------------------------------------------------------------------------
(* Two requests in flight on copy A, the copy with the synthetic path *)

\* A CSV text with a hard-braking row
PairPayloads == << CsvPayload(HeadCsv, MaxRows, Gen("std", FALSE, -1, Null, Hot)) >>

InitPair == Init /\ ver = "A"

NextPair ==
    \/ \E r \in Reqs :
          \/ AnalyzeA(r, PairPayloads)
          \/ FetchSettlesA(r)
          \/ FetchTimesOutA(r)
          \/ BodySettlesA(r)
    \/ Tick

SpecPair == InitPair /\ [][NextPair]_vars

-----------------------------------------------------------------------------
(* The extractor alone, on texts of many rows *)

\* The row counts tried: around the multiples of the sampling target, and the
\* largest
RowCounts == {n \in 1..BigRows : n % 25 = 0 \/ n % 100 \in {1, 2, 99} \/ n = BigRows}

Shapes3 == {"csv", "array", "nested"}

\* A text of n rows in one of the three shapes the extractor reads; row
\* `hole` has no x value (-1: every row has one)
BigPayload(shape, n, hole) ==
    CASE shape = "csv" ->
            CsvPayload(HeadCsv, n, Gen("std", FALSE, hole, Null, {}))
      [] shape = "array" ->
            JsonPayload(0, HeadArray, 600,
                        JsonArray(GenRows(n, Gen("std", FALSE, hole, Undef, {}))))
      [] OTHER ->
            JsonPayload(0, HeadNested, 700,
                        JsonObject("array", GenRows(n, Gen("nested", FALSE, hole, Null, {}))))

\* The rows without an x value that are tried
HoleRows == {-1, 10}

\* analyzeTelemetryWithAI up to the return of extractTrackPointsFromTelemetry,
\* on the text of n rows in the given shape; unit keeps the track points the
\* extractor had before it smoothed them
Extract(r, shape, n, hole) ==
    LET text == BigPayload(shape, n, hole) IN
    /\ pc[r] = "idle"
    /\ unit' = [fn |-> "extract", raw |-> PreSmoothing(text, Sniff(text))]
    /\ req' = [req EXCEPT ![r] = Request("u1", TRUE, "csv", text, S_Spa)]
    /\ parser' = [parser EXCEPT ![r] = Sniff(text)]
    /\ extraction' = [extraction EXCEPT ![r] =
                         extractTrackPointsFromTelemetry(ver, text, Sniff(text))]
    /\ trace' = [trace EXCEPT ![r] = <<"received", "extracting">>]
    /\ pc' = [pc EXCEPT ![r] = "extracted"]
    /\ UNCHANGED <<client, reg, ver, apiKey, problems, aiCalls, aiReply, result, http, uploads,
                   analysisRateLimit, users, now>>

NextExtract ==
    \E n \in RowCounts, shape \in Shapes3, hole \in HoleRows : Extract("r1", shape, n, hole)

SpecExtract == Init /\ [][NextExtract]_vars

\* The same pipeline with the one timer the code sets made fair: copy A's
\* timeout: 30000 fires if it stays armed.  Nothing obliges the collaborator to
\* answer, so the settling of the fetch and of the body carry no fairness.
FairSpec == Spec /\ WF_vars(FetchTimesOutA("r1"))

-----------------------------------------------------------------------------
(* Two requests served at the same time by the authenticated copy *)

\* Texts that give different track points and different problems
ConcPayloads ==
    << CsvPayload(HeadCsv, MaxRows, Gen("std", FALSE, -1, Null, Hot)),
       JsonPayload(0, HeadArray, 600,
                   JsonArray(GenRows(MaxRows, Gen("std", TRUE, 10, Undef, {})))) >>

InitConc == Init /\ ver = "B"

\* The handler runs to its first await in one step; the requests interleave
\* at the awaits of the AI call
NextConc ==
    \E r \in Reqs :
        \/ AnalyzeB(r, ConcPayloads)
        \/ FetchSettlesB(r)
        \/ BodySettlesB(r)

SpecConc == InitConc /\ [][NextConc]_vars

-----------------------------------------------------------------------------
(* The rate limiter called on its own, as time passes *)

MaxCalls == 7        \* calls of rateLimiter in one run
LimitClock == 61     \* the clock stops here
Waits == {29, 30}    \* seconds between two calls

\* The calls made so far, in order: the ip, the time, and the answer
CallLog == IF unit = NoUnit THEN << >> ELSE unit.calls

\* rateLimiter(ip) is called at the present time
LimiterCall(ip) ==
    /\ ver = "B"
    /\ unit = NoUnit \/ unit.fn = "limit"
    /\ Len(CallLog) < MaxCalls
    /\ analysisRateLimit' = rateLimiter(ip).map
    /\ unit' = [fn |-> "limit",
                calls |-> Append(CallLog, [ip |-> ip, at |-> now, ok |-> rateLimiter(ip).ok])]
    /\ UNCHANGED <<client, reg, ver, apiKey, pc, req, trace, parser, extraction, problems,
                   aiCalls, aiReply, result, http, uploads, users, now>>

\* d seconds pass
Pass(d) ==
    /\ now + d <= LimitClock
    /\ now' = now + d
    /\ UNCHANGED <<client, reg, unit, ver, apiKey, pc, req, trace, parser, extraction,
                   problems, aiCalls, aiReply, result, http, uploads, analysisRateLimit,
                   users>>

NextLimit ==
    \/ \E ip \in Ips : LimiterCall(ip)
    \/ \E d \in Waits : Pass(d)

SpecLimit == InitConc /\ [][NextLimit]_vars

-----------------------------------------------------------------------------
(* The client: App of src/App.tsx *)

serverVars == <<ver, apiKey, pc, req, trace, parser, extraction, problems, aiCalls,
                aiReply, result, http, uploads, analysisRateLimit, users, now, unit, reg>>

\* The page is loaded: the component mounts and its two effects run, one after
\* the other.  Each reads the token; without one it clears the state, with one
\* it starts a /profile and a /history fetch.
Mount ==
    /\ ~client.mounted
    /\ client' = IF client.token
                 THEN [client EXCEPT !.mounted = TRUE,
                                     !.profile = [k \in Effects |-> "pending"],
                                     !.history = [k \in Effects |-> "pending"]]
                 ELSE [client EXCEPT !.mounted = TRUE, !.user = FALSE,
                                     !.analysisHistory = FALSE]
    /\ UNCHANGED serverVars

\* The /profile fetch of effect k settles: setUser(user) when it answered ok;
\* otherwise setUser(null), and the second effect also removes the token
ProfileSettles(k, ok) ==
    /\ client.profile[k] = "pending"
    /\ client' = IF ok
                 THEN [client EXCEPT !.profile[k] = "settled", !.user = TRUE]
                 ELSE [client EXCEPT !.profile[k] = "settled", !.user = FALSE,
                                     !.token = IF k = 2 THEN FALSE ELSE @]
    /\ UNCHANGED serverVars

\* The /history fetch of effect k settles; filled tells whether the history
\* it answered has entries
HistorySettles(k, ok, filled) ==
    /\ client.history[k] = "pending"
    /\ ~ok => ~filled
    /\ client' = [client EXCEPT !.history[k] = "settled", !.analysisHistory = filled]
    /\ UNCHANGED serverVars

\* login(email, password) or register(userData), to the await of the fetch
Authenticate ==
    /\ client.mounted
    /\ client.auth = "idle"
    /\ client' = [client EXCEPT !.auth = "fetch"]
    /\ UNCHANGED serverVars

\* The fetch settles: on an answer that is ok the call awaits its body
AuthFetchSettles(ok) ==
    /\ client.auth = "fetch"
    /\ client' = [client EXCEPT !.auth = IF ok THEN "body" ELSE "idle"]
    /\ UNCHANGED serverVars

\* response.json() settles: setUser(user) and the token is stored, or the
\* catch reports the failure
AuthBodySettles(ok) ==
    /\ client.auth = "body"
    /\ client' = IF ok
                 THEN [client EXCEPT !.auth = "idle", !.user = TRUE, !.token = TRUE]
                 ELSE [client EXCEPT !.auth = "idle"]
    /\ UNCHANGED serverVars

\* The Logout button, which is rendered while user is set
Logout ==
    /\ client.mounted
    /\ client.user
    /\ client' = [client EXCEPT !.user = FALSE, !.token = FALSE]
    /\ UNCHANGED serverVars

\* The page is reloaded: the component and its pending callbacks are gone,
\* localStorage stays
Reload ==
    /\ client.mounted
    /\ client' = [NoClient EXCEPT !.token = client.token]
    /\ UNCHANGED serverVars

NextClient ==
    \/ Mount
    \/ \E k \in Effects, ok \in BOOLEAN : ProfileSettles(k, ok)
    \/ \E k \in Effects, ok \in BOOLEAN, filled \in BOOLEAN : HistorySettles(k, ok, filled)
    \/ Authenticate
    \/ \E ok \in BOOLEAN : AuthFetchSettles(ok)
    \/ \E ok \in BOOLEAN : AuthBodySettles(ok)
    \/ Logout
    \/ Reload

SpecClient == Init /\ [][NextClient]_vars

-----------------------------------------------------------------------------
(* Registrations served at the same time by the authenticated copy *)

NextRegister ==
    \E g \in Regs :
        \/ \E e \in 1..Len(Emails) : RegisterB(g, e)
        \/ \E ok \in BOOLEAN : HashSettles(g, ok)

SpecRegister == InitConc /\ [][NextRegister]_vars

-----------------------------------------------------------------------------
(* The core functions called on their own *)

pipelineVars == <<ver, apiKey, pc, req, trace, parser, extraction, problems, aiCalls,
                  aiReply, result, http, uploads, analysisRateLimit, users, now, reg,
                  client>>

UnitRows == 22        \* rows of a detector table: indices 10 and 20 are evaluated
MaxPoints == 14       \* longest sequence handed to the smoother
MaxHalfWidth == 6     \* widest window half-width handed to the smoother

UnitHot == {10, 20}

\* row without one of its keys
Without(row, key) ==
    LET all == [i \in 1..Len(row.keys) |-> i]
        Other(i) == row.keys[i] # key
        idx == SelectSeq(all, Other)
    IN  Row([j \in 1..Len(idx) |-> row.keys[idx[j]]],
            [j \in 1..Len(idx) |-> row.vals[idx[j]]])

\* A table of n rows with the standard headers but the one numbered drop (0:
\* none dropped), x flat or not, the rows of UnitHot braking hard or not, and
\* entry `at` null or a hole (bad = "none": every entry is a row)
UnitTable(n, drop, flat, hot, bad, at) ==
    LET g == Gen("std", flat, -1, Null, IF hot THEN UnitHot ELSE {})
    IN  [k \in 1..n |->
            IF bad # "none" /\ k - 1 = at
            THEN (IF bad = "null" THEN NullItem ELSE Hole)
            ELSE IF drop = 0 THEN GenRow(k - 1, g)
            ELSE Without(GenRow(k - 1, g), HdrStd[drop])]

\* The sizes of the tables: -1 stands for a call without dataPoints
UnitSizes == {-1, 0, 1, 12, UnitRows, ArgLimit + 1}
BadKinds == {"none", "null", "hole"}
BadPlaces == {0, 5, 9, 10, 19, 20}

\* findProblemAreas(dataPoints) called on a table; `pushed` is the content of
\* its local `problems` when the try block ended.  The parameters that do not
\* matter to a table are fixed.
DetectCall(n, drop, flat, hot, bad, at) ==
    LET dataPoints == IF n < 0 THEN AbsentData
                      ELSE UnitTable(n, drop, flat, hot, bad, at)
        try == TryDetect(ver, dataPoints)
    IN  /\ unit = NoUnit
        /\ \A r \in Reqs : pc[r] = "idle"
        /\ bad = "none" => at = 0
        /\ n <= 0 => (drop = 0 /\ ~flat /\ ~hot /\ bad = "none")
        /\ unit' = [fn |-> "detect", dataPoints |-> dataPoints,
                    threw |-> try.threw, pushed |-> try.list,
                    out |-> findProblemAreas(ver, dataPoints)]
        /\ UNCHANGED pipelineVars

\* The tables whose row `at` is set by hand: their sizes, the places of the
\* row, and its brake, throttle, speed and gear (in tenths).  The thresholds
\* of the checks and the values just beyond them are among them.
ProfileSizes == {EvalStride + 1, EvalStride + 2, UnitRows - 1, UnitRows}
ProfilePlaces == {0, 9, 10, 11, 20, 21}
ProfileBrakes == {2, 3, 8, 9}
ProfileThrottles == {5, 6}
ProfileSpeeds == {2000, 2010, 2290, 2300}
ProfileGears == {40, 50}

\* findProblemAreas(dataPoints) called on a table of n rows whose row `at` has
\* the given cells; the other rows run 250 in gear 6 without braking, or brake
\* hard at the rows of UnitHot
ProfileCall(n, hot, at, b, t, sp, g) ==
    LET base == UnitTable(n, 0, FALSE, hot, "none", 0)
        dataPoints == [k \in 1..n |->
                          IF k - 1 = at
                          THEN Row(HdrStd, <<Num(sp), Num(t), Num(b), Num(g),
                                             Get(base[k], S_x), Get(base[k], S_z)>>)
                          ELSE base[k]]
    IN  /\ unit = NoUnit
        /\ \A r \in Reqs : pc[r] = "idle"
        /\ at < n
        /\ unit' = [fn |-> "detect", dataPoints |-> dataPoints,
                    threw |-> TryDetect(ver, dataPoints).threw,
                    pushed |-> TryDetect(ver, dataPoints).list,
                    out |-> findProblemAreas(ver, dataPoints)]
        /\ UNCHANGED pipelineVars

\* n points whose x is c (in tenths) and whose z is c too, or varies
UnitPoints(n, c, same) ==
    [k \in 1..n |-> <<c, IF same THEN c ELSE c + ((k * 3) % 7) * 10>>]

SmoothValues == {1, 3, 7, 9, 25, 70}

\* smoothTrackPoints(points, w) called on n points
SmoothCall(n, w, c, same) ==
    LET points == UnitPoints(n, c, same)
    IN  /\ unit = NoUnit
        /\ unit' = [fn |-> "smooth", points |-> points, w |-> w,
                    out |-> smoothTrackPoints(ver, points, w)]
        /\ UNCHANGED pipelineVars

S_Speed == <<"S","p","e","e","d">>
S_X == <<"X">>
S_Z == <<"Z">>
S_index == <<"i","n","d","e","x">>
S_WorldPositionX == <<"W","o","r","l","d","P","o","s","i","t","i","o","n","X">>
S_WorldPositionZ == <<"W","o","r","l","d","P","o","s","i","t","i","o","n","Z">>

\* The header lists handed to the resolvers
HeaderLists ==
    << HdrStd,
       << >>,
       <<S_velocity, S_speed, S_gas, S_throttle, S_x_pos, S_x, S_z_pos, S_z>>,
       <<S_Speed, S_brake, S_WorldPositionX, S_WorldPositionZ>>,
       <<S_Speed, S_throttle, S_brake, S_gear, S_X, S_Z>>,
       <<S_index, S_speed, S_x, S_z>>,
       <<S_kmh, S_position, S_gear>> >>

\* The column resolution of the extractor and of the detector on one header
\* list
ResolveCall(h) ==
    /\ unit = NoUnit
    /\ unit' = [fn |-> "resolve", headers |-> HeaderLists[h],
                position |-> PositionColumns(HeaderLists[h]),
                columns |-> Columns(HeaderLists[h])]
    /\ UNCHANGED pipelineVars

NextUnit ==
    \/ \E n \in UnitSizes, drop \in 0..Len(HdrStd), flat \in BOOLEAN, hot \in BOOLEAN,
          bad \in BadKinds, at \in BadPlaces :
          DetectCall(n, drop, flat, hot, bad, at)
    \/ \E n \in 1..MaxPoints, w \in 0..MaxHalfWidth, c \in SmoothValues, same \in BOOLEAN :
          SmoothCall(n, w, c, same)
    \/ \E h \in 1..Len(HeaderLists) : ResolveCall(h)

SpecUnit == Init /\ [][NextUnit]_vars

\* The detector on the tables with a row set by hand
NextProfile ==
    \E n \in ProfileSizes, hot \in BOOLEAN, at \in ProfilePlaces, b \in ProfileBrakes,
       t \in ProfileThrottles, sp \in ProfileSpeeds, g \in ProfileGears :
       ProfileCall(n, hot, at, b, t, sp, g)

SpecProfile == Init /\ [][NextProfile]_vars

-----------------------------------------------------------------------------
(* The detector, called on its own and by the request handler *)

\* A CSV text with more rows than the argument limit, and one within it
DetectPayloads ==
    << CsvPayload(HeadCsv, ArgLimit + 2, Gen("std", FALSE, -1, Null, Hot)),
       CsvPayload(HeadCsv, MaxRows, Gen("std", FALSE, -1, Null, Hot)) >>

NextDetect ==
    \/ \E n \in UnitSizes, drop \in 0..Len(HdrStd), flat \in BOOLEAN, hot \in BOOLEAN,
          bad \in BadKinds, at \in BadPlaces :
          DetectCall(n, drop, flat, hot, bad, at)
    \/ unit = NoUnit /\ AnalyzeA("r1", DetectPayloads)
    \/ unit = NoUnit /\ AnalyzeB("r1", DetectPayloads)
    \/ FetchSettlesA("r1")
    \/ FetchTimesOutA("r1")
    \/ BodySettlesA("r1")
    \/ FetchSettlesB("r1")
    \/ BodySettlesB("r1")

SpecDetect == Init /\ [][NextDetect]_vars

-----------------------------------------------------------------------------
(* Properties of the request pipeline *)

Finished(r) == pc[r] = "done"

\* The extraction ran for r (the handler got past the upload checks)
Extracted(r) == parser[r] # "none"

\* The AI call of r failed: the fetch rejected, timed out or answered with a
\* non-success status, or the reply's body or content could not be parsed
AiFailed(r) ==
    \/ aiReply[r].fetch \in {"reject", "timeout", "notok"}
    \/ aiReply[r].body \in {"unparsable", "nochoices", "malformed"}

\* C1: a finished request whose extraction succeeded and whose AI call failed
\* (network error, timeout, non-success status, malformed or unparsable reply)
\* ended in terminal success, answered 200 with the synthetic narrative
\* (stated for the requests that carry their track field).
C1_AiFailureFallsBackToSynthetic ==
    \A r \in Reqs :
        (Finished(r) /\ extraction[r].valid /\ AiFailed(r) /\ req[r].track # NoTrack) =>
            /\ result[r].valid
            /\ result[r].data.kind = "synthetic"
            /\ http[r].status = 200
            /\ trace[r][Len(trace[r])] = "terminal_success"

\* C2: when the extraction of a finished request returned {valid: false, reason},
\* that failure is the final result; the detector never ran, no AI call was
\* issued, no synthetic narrative was generated, and the response carries an
\* error status and no report.
C2_ExtractionFailureIsFinal ==
    \A r \in Reqs :
        (Finished(r) /\ Extracted(r) /\ ~extraction[r].valid) =>
            /\ ~result[r].valid
            /\ result[r].reason = extraction[r].reason
            /\ result[r].data = NoData
            /\ ~problems[r].ran
            /\ aiCalls[r] = 0
            /\ aiReply[r] = NoReply
            /\ \A k \in 1..Len(trace[r]) :
                  trace[r][k] \notin {"detecting", "assembling", "ai"}
            /\ http[r].status >= 400
            /\ ~http[r].report
            /\ http[r].data = NoData

\* A request finished after its extraction failed
C2_Witness ==
    \E r \in Reqs :
        /\ Finished(r) /\ Extracted(r) /\ ~extraction[r].valid
        /\ req[r].text.json.k = "throw"
        /\ http[r].status >= 400

\* The position of a stage in the order received, extracting, detecting,
\* assembling, AI call, terminal
StageRank(stage) ==
    CASE stage = "received"   -> 1
      [] stage = "extracting" -> 2
      [] stage = "detecting"  -> 3
      [] stage = "assembling" -> 4
      [] stage = "ai"         -> 5
      [] OTHER                -> 6

IsTerminal(stage) == stage \in {"terminal_error", "terminal_success"}

\* C3: the stages a request has entered are in the order received, extracting,
\* detecting, assembling, AI call, terminal, each entered at most once; the AI
\* call is issued at most once; detecting is entered only after an extraction
\* that succeeded; a finished request has entered exactly one terminal stage,
\* its last, and an unfinished one none.
C3_StagesInOrderOnce ==
    \A r \in Reqs :
        LET t == trace[r] IN
        /\ \A j, k \in 1..Len(t) : j < k => StageRank(t[j]) < StageRank(t[k])
        /\ Len(t) > 0 => t[1] = "received"
        /\ aiCalls[r] <= 1
        /\ aiCalls[r] = Cardinality({k \in 1..Len(t) : t[k] = "ai"})
        /\ \A k \in 1..Len(t) :
              t[k] = "detecting" => (k > 1 /\ t[k - 1] = "extracting" /\ extraction[r].valid)
        /\ Cardinality({k \in 1..Len(t) : IsTerminal(t[k])}) = (IF Finished(r) THEN 1 ELSE 0)
        /\ Finished(r) => IsTerminal(t[Len(t)])

\* A request that went through every stage, the AI call included
C3_Witness ==
    \E r \in Reqs :
        /\ Finished(r)
        /\ trace[r] = <<"received", "extracting", "detecting", "assembling", "ai",
                        "terminal_success">>
        /\ aiCalls[r] = 1

\* The synthetic path produced the report of r
Synthesised(r) == Finished(r) /\ result[r].valid /\ result[r].data.kind = "synthetic"

\* C5: two requests that took the synthetic path on the same payload with the
\* same track, car class and game got the same lap time, top speed, sectors
\* (times and mistakes) and recommendations, whenever each was served and
\* whatever was served before.
C5_SyntheticIsDeterministic ==
    \A r1, r2 \in Reqs :
        ( /\ Synthesised(r1) /\ Synthesised(r2)
          /\ req[r1].text = req[r2].text
          /\ req[r1].track = req[r2].track
          /\ req[r1].carClass = req[r2].carClass
          /\ req[r1].game = req[r2].game ) =>
            /\ result[r1].data.lapTime = result[r2].data.lapTime
            /\ result[r1].data.topSpeed = result[r2].data.topSpeed
            /\ result[r1].data.sectors = result[r2].data.sectors
            /\ result[r1].data.recommendations = result[r2].data.recommendations

\* Two requests with the same input were served by the synthetic path at
\* different times, one of them after an AI call that failed
C5_Witness ==
    /\ Synthesised("r1") /\ Synthesised("r2")
    /\ req["r1"].text = req["r2"].text
    /\ req["r1"].track = req["r2"].track
    /\ aiReply["r1"].fetch = "notok"
    /\ aiReply["r2"].body = "malformed"
    /\ now > 0

\* The report of r is an AI reply merged with the local data
Merged(r) == Finished(r) /\ result[r].valid /\ result[r].data.kind = "ai"

ReplyHasTrackLine(r) == aiReply[r].obj.hasTrackMap /\ aiReply[r].obj.hasTrackLine
ReplyHasErrors(r) == aiReply[r].obj.hasTrackMap /\ aiReply[r].obj.hasErrors

\* C6, as stated: in a merged report the track line and the error list are the
\* reply's whenever the reply has the field, and the local ones only when the
\* reply omits it.
C6_ReplyFieldsWin ==
    \A r \in Reqs :
        Merged(r) =>
            /\ result[r].data.trackLine =
                  (IF ReplyHasTrackLine(r) THEN aiReply[r].obj.trackLine
                   ELSE extraction[r].trackPoints)
            /\ result[r].data.errors =
                  (IF ReplyHasErrors(r) THEN aiReply[r].obj.errors
                   ELSE problems[r].list)

\* C6, amended: in a merged report the local data comes first.  Copy A takes
\* the local track points when there are more than 10 of them and the local
\* problems when there is at least one; only otherwise the reply's field, and
\* an empty list when the reply has none.  Copy B always takes the local track
\* points and problems.
C6_LocalDataWins ==
    \A r \in Reqs :
        Merged(r) =>
            /\ result[r].data.trackLine =
                  (IF ver = "B" \/ Len(extraction[r].trackPoints) > 10
                   THEN extraction[r].trackPoints
                   ELSE IF ReplyHasTrackLine(r) THEN aiReply[r].obj.trackLine
                   ELSE << >>)
            /\ result[r].data.errors =
                  (IF ver = "B" \/ Len(problems[r].list) > 0
                   THEN problems[r].list
                   ELSE IF ReplyHasErrors(r) THEN aiReply[r].obj.errors
                   ELSE << >>)

\* Copy A merged a reply that has both fields into a report that carries the
\* local track points and problems instead
C6_Witness ==
    \E r \in Reqs :
        /\ Merged(r) /\ ver = "A"
        /\ ReplyHasTrackLine(r) /\ ReplyHasErrors(r)
        /\ Len(extraction[r].trackPoints) > 10 /\ Len(problems[r].list) > 0
        /\ result[r].data.trackLine = extraction[r].trackPoints
        /\ result[r].data.trackLine # aiReply[r].obj.trackLine
        /\ result[r].data.errors = problems[r].list
        /\ result[r].data.errors # aiReply[r].obj.errors

\* The extractor returned for r, with success
ExtractedValid(r) == Extracted(r) /\ extraction[r].valid

\* The entries of a parsed JSON text that have both coordinates
WithBothCoords(json) ==
    {k \in 1..Len(json.items) :
        IF json.k = "array"
        THEN NotNullish(Get(json.items[k], S_x)) /\ NotNullish(Get(json.items[k], S_z))
        ELSE NotNullish(NestedCoord(json.items[k], "x"))
             /\ NotNullish(NestedCoord(json.items[k], "z"))}

TrackPointCeiling == 2 * SampleTarget

\* C7, as stated: every successful extraction, CSV or JSON, returns fewer than
\* 400 track points.
C7_TrackPointsBounded ==
    \A r \in Reqs :
        ExtractedValid(r) => Len(extraction[r].trackPoints) < TrackPointCeiling

\* C7, amended: on the CSV path the extraction returns fewer than 400 track
\* points however many rows the text has; on the JSON paths nothing is sampled,
\* and it returns one track point for every entry that has both coordinates.
C7_CsvBoundedJsonPassThrough ==
    \A r \in Reqs :
        ExtractedValid(r) =>
            /\ parser[r] = "csv" =>
                  /\ Len(extraction[r].trackPoints) < TrackPointCeiling
                  /\ Len(extraction[r].trackPoints) <= Len(req[r].text.csv)
            /\ parser[r] = "json" =>
                  Len(extraction[r].trackPoints) =
                      Cardinality(WithBothCoords(req[r].text.json))

\* A CSV text of more than 400 rows was sampled down to about 200 points
C7_Witness ==
    \E r \in Reqs :
        /\ ExtractedValid(r) /\ parser[r] = "csv"
        /\ Len(req[r].text.csv) > TrackPointCeiling
        /\ Len(extraction[r].trackPoints) >= SampleTarget
        /\ Len(extraction[r].trackPoints) < Len(req[r].text.csv) - 1

\* A coordinate that is a number in [0, 100]
InUnitRange(c) == ~IsNaN(c) /\ c.d > 0 /\ 0 <= c.n /\ c.n <= 100 * c.d

\* C8: every problem the detector emitted has a position whose two coordinates
\* are numbers in [0, 100] (stated for copy B, whose getNorm guards the flat
\* axis).
C8_ProblemPositionsNormalised ==
    \A r \in Reqs :
        ver = "B" =>
            \A k \in 1..Len(problems[r].list) :
                /\ InUnitRange(problems[r].list[k].position[1])
                /\ InUnitRange(problems[r].list[k].position[2])

\* The text of r parsed as JSON to an object without a telemetry array
NoPointStructure(r) ==
    /\ Extracted(r) /\ parser[r] = "json"
    /\ req[r].text.json.k = "object" /\ req[r].text.json.tel # "array"

\* C9: for a text that parses as JSON but is neither an array nor an object
\* with a telemetry array, the extractor returns {valid: false, reason} and the
\* request ends with a client error and no report.
C9_NoPointStructureIsRejected ==
    \A r \in Reqs :
        (Finished(r) /\ NoPointStructure(r)) =>
            /\ ~extraction[r].valid
            /\ ~result[r].valid
            /\ http[r].status \in 400..499
            /\ ~http[r].report

\* The brace occurs among the first 20 characters of the text
BraceInFirst20(text) ==
    \E k \in 1..Len(text.head) : k <= 20 /\ text.head[k] = "{"

\* C10: the parser used for a text is the JSON one if the character { occurs
\* among its first 20 characters and the CSV one otherwise, whatever the
\* extension of the uploaded file's name.
C10_ParserBySniffOnly ==
    \A r \in Reqs :
        Extracted(r) =>
            parser[r] = (IF BraceInFirst20(req[r].text) THEN "json" ELSE "csv")

\* A file named *.json whose brace comes after the first 20 characters was
\* read as CSV
C10_Witness ==
    \E r \in Reqs :
        /\ Finished(r) /\ Extracted(r)
        /\ req[r].ext = "json"
        /\ Includes(req[r].text.head, <<"{">>)
        /\ parser[r] = "csv"

\* C4: a request that waits for the AI collaborator eventually reaches a
\* terminal state, even if the collaborator never answers.
C4_EveryRequestTerminates ==
    \A r \in {"r1"} : (pc[r] \in {"fetch", "body"}) ~> Finished(r)

-----------------------------------------------------------------------------
(* The rows handed to the detector *)

\* C11: a successful extraction of a CSV text with at least one row returns
\* as dataPoints all the parsed rows in their order, whether or not the
\* position columns were resolved, so that the rows reach the detector.
C11_DataPointsAreAllRows ==
    \A r \in Reqs :
        (ExtractedValid(r) /\ parser[r] = "csv" /\ Len(req[r].text.csv) >= 1) =>
            extraction[r].dataPoints = req[r].text.csv

\* The detector was called on its own
DetectorCalled == unit.fn = "detect"

\* The call passed no rows: no argument, or an empty array
NoRows(dataPoints) == dataPoints = AbsentData \/ Len(dataPoints) = 0

\* C12: findProblemAreas called with an empty dataPoints sequence, or with
\* none, returns an empty problem list, and no exception is raised in it.
C12_NoRowsNoProblems ==
    (DetectorCalled /\ NoRows(unit.dataPoints)) =>
        /\ unit.out = << >>
        /\ ~unit.threw

\* The detector was called on an empty array and returned an empty list
C12_Witness ==
    /\ DetectorCalled
    /\ unit.dataPoints = << >>
    /\ unit.out = << >>

\* The detector's try block threw on the rows the extraction of r returned
DetectorThrew(r) ==
    ExtractedValid(r) /\ TryDetect(ver, extraction[r].dataPoints).threw

\* The AI step of r gave nothing to report: the call failed, the reply lacks
\* the fields copy B reads, or copy A's synthetic path had no track to read
NothingFromAi(r) ==
    \/ AiFailed(r)
    \/ req[r].track = NoTrack
    \/ ver = "B" /\ ~(aiReply[r].obj.lapAnalysis /\ aiReply[r].obj.brakingPoints)

Evaluated(dataPoints) ==
    {i \in 1..(Len(dataPoints) - 2) : i % 10 = 0}

\* The first row has the key
HasColumn(dataPoints, name) ==
    \E j \in 1..Len(dataPoints[1].keys) : dataPoints[1].keys[j] = name

\* The number in the cell of row i (0-based), in tenths
Cell(dataPoints, i, name) == Get(dataPoints[i + 1], name).v

\* brake > 0.8 and a speed drop of more than 20, with both columns present
HarshAt(dataPoints, i) ==
    /\ HasColumn(dataPoints, S_brake) /\ HasColumn(dataPoints, S_speed)
    /\ Cell(dataPoints, i, S_brake) > 8
    /\ Cell(dataPoints, i - 1, S_speed) - Cell(dataPoints, i, S_speed) > 200

\* brake > 0.2 and throttle > 0.5, with both columns present
OverlapAt(dataPoints, i) ==
    /\ HasColumn(dataPoints, S_brake) /\ HasColumn(dataPoints, S_throttle)
    /\ Cell(dataPoints, i, S_brake) > 2
    /\ Cell(dataPoints, i, S_throttle) > 5

\* speed > 200 and gear < 5, with both columns present
UpshiftAt(dataPoints, i) ==
    /\ HasColumn(dataPoints, S_speed) /\ HasColumn(dataPoints, S_gear)
    /\ Cell(dataPoints, i, S_speed) > 2000
    /\ Cell(dataPoints, i, S_gear) < 50

\* How many problems of the list carry the description
CountOf(list, description) ==
    Cardinality({k \in 1..Len(list) : list[k].description = description})

\* C14: an unresolved column disables only the checks that read it.  Over the
\* evaluated rows, harsh braking is emitted exactly where brake and speed are
\* resolved and its condition holds, overlap exactly where brake and throttle
\* are, late upshift exactly where speed and gear are; nothing else is emitted.
C14_UnresolvedColumnDisablesItsChecks ==
    (DetectorCalled /\ ~unit.threw /\ ~NoRows(unit.dataPoints)) =>
        LET dp == unit.dataPoints IN
        /\ CountOf(unit.out, "Harsh braking detected") =
              Cardinality({i \in Evaluated(dp) : HarshAt(dp, i)})
        /\ CountOf(unit.out, "Overlapping throttle and brake") =
              Cardinality({i \in Evaluated(dp) : OverlapAt(dp, i)})
        /\ CountOf(unit.out, "Late upshift detected") =
              Cardinality({i \in Evaluated(dp) : UpshiftAt(dp, i)})
        /\ Len(unit.out) =
              CountOf(unit.out, "Harsh braking detected")
              + CountOf(unit.out, "Overlapping throttle and brake")
              + CountOf(unit.out, "Late upshift detected")

\* On a table without a throttle column the detector found the harsh braking
\* and the late upshift of rows 10 and 20, and no overlap
C14_Witness ==
    /\ DetectorCalled /\ ~unit.threw /\ ~NoRows(unit.dataPoints)
    /\ ~HasColumn(unit.dataPoints, S_throttle)
    /\ CountOf(unit.out, "Harsh braking detected") = 2
    /\ CountOf(unit.out, "Late upshift detected") = 2
    /\ CountOf(unit.out, "Overlapping throttle and brake") = 0

-----------------------------------------------------------------------------
(* Column resolution *)

\* The keywords of each field
Keywords ==
    [speed    |-> {S_speed, S_velocity, S_kmh, S_mph},
     throttle |-> {S_throttle, S_gas},
     brake    |-> {S_brake},
     gear     |-> {S_gear},
     posX     |-> {S_position_x, S_x_pos, S_x, S_worldpositionx},
     posY     |-> {S_position_z, S_z_pos, S_z, S_worldpositionz}]

\* headers[i] in lower case contains a keyword of the field
Matches(headers, i, field) ==
    \E k \in Keywords[field] : Includes(ToLowerCase(headers[i]), k)

\* header is the first of headers that matches the field, or NoColumn when
\* none does
IsFirstMatch(headers, field, header) ==
    IF \E i \in 1..Len(headers) : Matches(headers, i, field)
    THEN \E i \in 1..Len(headers) :
            /\ header = headers[i]
            /\ Matches(headers, i, field)
            /\ \A j \in 1..(i - 1) : ~Matches(headers, j, field)
    ELSE header = NoColumn

Resolved == unit.fn = "resolve"

\* C15: the extractor and the detector alike resolve each field to the first
\* header, in header order, whose lower-case text contains a keyword of the
\* field, and to no column when no header does; with no header at all every
\* field is unresolved.
C15_ResolutionAlike ==
    Resolved =>
        /\ \A f \in DOMAIN Keywords : IsFirstMatch(unit.headers, f, unit.columns[f])
        /\ IsFirstMatch(unit.headers, "posX", unit.position.xPos)
        /\ IsFirstMatch(unit.headers, "posY", unit.position.yPos)
        /\ unit.headers = << >> =>
              /\ \A f \in DOMAIN Keywords : unit.columns[f] = NoColumn
              /\ unit.position.xPos = NoColumn
              /\ unit.position.yPos = NoColumn

-----------------------------------------------------------------------------
(* The smoother *)

Smoothed == unit.fn = "smooth"

\* The points as the pairs of fractions they stand for
AsFractions(points) ==
    [i \in 1..Len(points) |-> <<Frac(points[i][1], 1), Frac(points[i][2], 1)>>]

\* C17: smoothTrackPoints returns as many points as it is given, for every
\* non-empty input and every window half-width.
C17_SmoothingKeepsLength ==
    Smoothed => Len(unit.out) = Len(unit.points)

\* A sequence longer than the whole window was averaged: some point moved
C17_Witness ==
    /\ Smoothed
    /\ unit.w > 0
    /\ Len(unit.points) > 2 * unit.w + 1
    /\ Len(unit.out) = Len(unit.points)
    /\ unit.out # AsFractions(unit.points)

\* Every point is the first one
Identical(points) ==
    /\ Len(points) > 0
    /\ \A i \in 1..Len(points) : points[i] = points[1]

\* The value adds up without rounding: a whole number of halves
AddsExactly(c) == c % 5 = 0

\* The window of some point is empty: half-width 0 in copy A
EmptyWindow(v, w) == v = "A" /\ w = 0

\* q is a number within two millionths of a tenth of c
Close(q, c) ==
    /\ ~IsNaN(q)
    /\ Abs(q.n - c * q.d) * 500000 <= q.d

\* C18 as stated: smoothing N identical points returns them unchanged,
\* whatever N and the half-width.
C18_IdenticalPointsUnchanged ==
    Smoothed /\ Identical(unit.points) => unit.out = AsFractions(unit.points)

\* C18: N identical points come back unchanged when N is below the
\* half-width, and when the value adds up exactly and no window is empty;
\* otherwise every coordinate comes back as a number within rounding of the
\* value, and as 0/0 when the window is empty.
C18_IdenticalPointsWithinRounding ==
    Smoothed /\ Identical(unit.points) =>
        LET p == unit.points[1]
            n == Len(unit.points)
        IN  /\ n < unit.w => unit.out = AsFractions(unit.points)
            /\ AddsExactly(p[1]) /\ AddsExactly(p[2]) /\ ~EmptyWindow(ver, unit.w) =>
                  /\ unit.out = AsFractions(unit.points)
                  /\ smoothTrackPoints(ver, [i \in 1..n |-> p], unit.w) = unit.out
            /\ n >= unit.w /\ EmptyWindow(ver, unit.w) =>
                  \A i \in 1..n : IsNaN(unit.out[i][1]) /\ IsNaN(unit.out[i][2])
            /\ ~EmptyWindow(ver, unit.w) =>
                  /\ Len(unit.out) = n
                  /\ \A i \in 1..n : Close(unit.out[i][1], p[1]) /\ Close(unit.out[i][2], p[2])

\* Identical points that do not add up exactly came back changed, by less
\* than the rounding allows
C18_Witness ==
    /\ Smoothed
    /\ Identical(unit.points)
    /\ ~AddsExactly(unit.points[1][1])
    /\ Len(unit.points) > unit.w
    /\ unit.w = WindowSize
    /\ unit.out # AsFractions(unit.points)
    /\ \A i \in 1..Len(unit.out) : Close(unit.out[i][1], unit.points[1][1])

-----------------------------------------------------------------------------
(* Normalisation on a flat axis *)

\* The column is resolved and holds the same number in every row
FlatColumn(dataPoints, name) ==
    /\ HasColumn(dataPoints, name)
    /\ \A k \in 1..Len(dataPoints) :
          /\ Get(dataPoints[k], name) = Get(dataPoints[1], name)
          /\ Get(dataPoints[k], name).t = "num"

\* C20: when a position column holds one value over the whole dataPoints
\* sequence, every emitted problem has exactly 50 on that axis, and no
\* division by zero shows in the result.
C20_FlatAxisGivesFifty ==
    (DetectorCalled /\ ~unit.threw /\ ~NoRows(unit.dataPoints)) =>
        /\ FlatColumn(unit.dataPoints, S_x) =>
              \A k \in 1..Len(unit.out) : unit.out[k].position[1] = Frac(FlatNorm, 1)
        /\ FlatColumn(unit.dataPoints, S_z) =>
              \A k \in 1..Len(unit.out) : unit.out[k].position[2] = Frac(FlatNorm, 1)

-----------------------------------------------------------------------------
(* Sampling of the CSV rows *)

\* The extractor ran on the CSV text of r, whose rows all have both
\* coordinates under resolvable headers
CleanCsv(r) ==
    /\ ExtractedValid(r) /\ parser[r] = "csv" /\ unit.fn = "extract"
    /\ Len(req[r].text.csv) > 0
    /\ HasColumn(req[r].text.csv, S_x) /\ HasColumn(req[r].text.csv, S_z)
    /\ \A k \in 1..Len(req[r].text.csv) :
          /\ NotNullish(Get(req[r].text.csv[k], S_x))
          /\ NotNullish(Get(req[r].text.csv[k], S_z))

\* s = max(1, floor(N / 200)): the largest s with 200 * s <= N, or 1
Stride(N) ==
    IF N < SampleTarget THEN 1
    ELSE CHOOSE s \in 1..N : s * SampleTarget <= N /\ (s + 1) * SampleTarget > N

\* ceil(a / b)
CeilDiv(a, b) == (a + b - 1) \div b

\* C19: for a CSV of N rows with resolvable position columns and no null
\* coordinate, the track points before smoothing are the rows at indices 0, s,
\* 2s, ... in order, with s = max(1, floor(N / 200)); there are ceil(N / s) of
\* them.
C19_EveryStridethRow ==
    \A r \in Reqs :
        CleanCsv(r) =>
            LET rows == req[r].text.csv
                N == Len(rows)
                s == Stride(N)
            IN  /\ Len(unit.raw) = CeilDiv(N, s)
                /\ Len(extraction[r].trackPoints) = CeilDiv(N, s)
                /\ \A k \in 1..Len(unit.raw) :
                      unit.raw[k] = <<Get(rows[(k - 1) * s + 1], S_x).v,
                                      Get(rows[(k - 1) * s + 1], S_z).v>>

\* A CSV of an odd number of rows above 400 was sampled with stride 2, its
\* last row included
C19_Witness ==
    \E r \in Reqs :
        /\ CleanCsv(r)
        /\ Len(req[r].text.csv) > TrackPointCeiling
        /\ Len(req[r].text.csv) % 2 = 1
        /\ Len(unit.raw) = (Len(req[r].text.csv) + 1) \div 2
        /\ unit.raw[Len(unit.raw)][1] = Get(req[r].text.csv[Len(req[r].text.csv)], S_x).v

-----------------------------------------------------------------------------
(* Requests served at the same time *)

\* The request is between two steps of its AI call
InFlight(r) == pc[r] \in {"fetch", "body"}

\* What the extractor returns for the text of r, whatever else is going on
ExtractionAlone(r) ==
    extractTrackPointsFromTelemetry(ver, req[r].text, Sniff(req[r].text))

\* What the detector returns for the rows of an extraction
ProblemsAlone(e) ==
    IF e.valid
    THEN [ran |-> TRUE, list |-> findProblemAreas(ver, e.dataPoints)]
    ELSE NoProblems

\* The state holds for r the extraction e and the problems found in it
Holds(r, e) == extraction[r] = e /\ problems[r] = ProblemsAlone(e)

\* C16: however the steps of two requests interleave, the track points and
\* the problems computed for each request are those computed for its text
\* alone.
C16_RequestsIndependent ==
    \A r \in Reqs : Extracted(r) => Holds(r, ExtractionAlone(r))

\* Two requests with different texts are in flight together, each with its own
\* track points and problems
C16_Witness ==
    /\ InFlight("r1") /\ InFlight("r2")
    /\ req["r1"].text # req["r2"].text
    /\ extraction["r1"].trackPoints # extraction["r2"].trackPoints
    /\ problems["r1"].list # << >>
    /\ problems["r2"].list = << >>

-----------------------------------------------------------------------------
(* The checks of the detector, row by row *)

\* The detector ran to its end on a table
Detected == DetectorCalled /\ ~unit.threw /\ ~NoRows(unit.dataPoints)

\* The cells of a column over the whole table
ColumnValues(dataPoints, name) ==
    {Cell(dataPoints, k, name) : k \in 0..(Len(dataPoints) - 1)}

\* The smallest and the largest of a set of numbers
Least(S) == CHOOSE a \in S : \A b \in S : a <= b
Greatest(S) == CHOOSE a \in S : \A b \in S : a >= b

\* (value - min) / (max - min) * 100 of the cell of row i, over a column that
\* is not flat
NormAt(dataPoints, i, name) ==
    LET all == ColumnValues(dataPoints, name)
    IN  Frac((Cell(dataPoints, i, name) - Least(all)) * 100, Greatest(all) - Least(all))

PositionAt(dataPoints, i) ==
    <<NormAt(dataPoints, i, S_x), NormAt(dataPoints, i, S_z)>>

\* The k-th smallest member of a set of indices
Nth(S, k) == CHOOSE i \in S : Cardinality({j \in S : j < i}) = k - 1

IsHarsh(problem) == problem.description = "Harsh braking detected"

\* The problems of the list that report harsh braking, in order
HarshOf(list) == SelectSeq(list, IsHarsh)

\* C21: over the evaluated rows, one harsh-braking problem of severity high is
\* emitted for each row whose brake is above 0.8 and whose speed is more than
\* 20 below the previous row's, and none for any other row; its position is
\* the row's coordinates normalised against the whole table.
C21_HarshBrakingExactlyWhereItHolds ==
    Detected =>
        LET dp == unit.dataPoints
            rows == {i \in Evaluated(dp) : HarshAt(dp, i)}
            harsh == HarshOf(unit.out)
        IN  /\ Len(harsh) = Cardinality(rows)
            /\ \A k \in 1..Len(harsh) :
                  /\ harsh[k].severity = "high"
                  /\ harsh[k].position = PositionAt(dp, Nth(rows, k))
            /\ \A k \in 1..Len(unit.out) :
                  unit.out[k].severity = "high" => IsHarsh(unit.out[k])

\* Row 10 brakes at 0.9 and is 21 slower than row 9: one harsh-braking problem
C21_Witness ==
    /\ Detected
    /\ Len(unit.dataPoints) = EvalStride + 2
    /\ Cell(unit.dataPoints, 10, S_brake) = 9
    /\ Cell(unit.dataPoints, 9, S_speed) - Cell(unit.dataPoints, 10, S_speed) = 210
    /\ Len(HarshOf(unit.out)) = 1
    /\ HarshOf(unit.out)[1].position = PositionAt(unit.dataPoints, 10)

\* The problems of the list emitted for row i, told by their position
EmittedAt(list, dataPoints, i) ==
    {k \in 1..Len(list) : list[k].position = PositionAt(dataPoints, i)}

\* The descriptions and severities of the checks whose condition holds at row i
ExpectedAt(dataPoints, i) ==
    (IF HarshAt(dataPoints, i) THEN {<<"Harsh braking detected", "high">>} ELSE {})
    \cup (IF OverlapAt(dataPoints, i)
          THEN {<<"Overlapping throttle and brake", "medium">>} ELSE {})
    \cup (IF UpshiftAt(dataPoints, i) THEN {<<"Late upshift detected", "low">>} ELSE {})

\* C22: the three checks are independent.  The problems emitted for an
\* evaluated row are exactly those of harsh braking, overlap (brake above 0.2
\* and throttle above 0.5, medium) and late upshift (speed above 200 and gear
\* below 5, low) whose own condition holds: each once, from none to three.
C22_ChecksAreIndependent ==
    Detected =>
        \A i \in Evaluated(unit.dataPoints) :
            LET at == EmittedAt(unit.out, unit.dataPoints, i)
            IN  /\ {<<unit.out[k].description, unit.out[k].severity>> : k \in at}
                      = ExpectedAt(unit.dataPoints, i)
                /\ Cardinality(at) = Cardinality(ExpectedAt(unit.dataPoints, i))
                /\ Cardinality(at) <= 3

\* Row 10 of a table of 12 rows meets the three conditions and yields the
\* three problems
C22_Witness ==
    /\ Detected
    /\ Len(unit.dataPoints) = EvalStride + 2
    /\ HarshAt(unit.dataPoints, 10)
    /\ OverlapAt(unit.dataPoints, 10)
    /\ UpshiftAt(unit.dataPoints, 10)
    /\ Len(unit.out) = 3

\* C23: every problem comes from a row index i with 1 <= i <= n - 2 and i a
\* multiple of 10; the first row, the last row and the rows whose index is not
\* a multiple of 10 give none, so a table of fewer than 12 rows gives none.
C23_OnlyEveryTenthInnerRow ==
    Detected =>
        LET dp == unit.dataPoints
            n == Len(dp)
        IN  /\ \A k \in 1..Len(unit.out) :
                  \E i \in 1..(n - 2) :
                      /\ i % 10 = 0
                      /\ unit.out[k].position = PositionAt(dp, i)
            /\ \A i \in 0..(n - 1) :
                  (i = 0 \/ i = n - 1 \/ i % 10 # 0) => EmittedAt(unit.out, dp, i) = {}
            /\ n < 12 => unit.out = << >>

\* The last row of a table of 21 rows, index 20, brakes hard and gives no
\* problem, while row 10 gives its own
C23_Witness ==
    /\ Detected
    /\ Len(unit.dataPoints) = 2 * EvalStride + 1
    /\ HarshAt(unit.dataPoints, 2 * EvalStride)
    /\ EmittedAt(unit.out, unit.dataPoints, 2 * EvalStride) = {}
    /\ EmittedAt(unit.out, unit.dataPoints, EvalStride) # {}

-----------------------------------------------------------------------------
(* The window of the smoother *)

\* The average, as the doubles give it, of coordinate k of the points with
\* 0-based indices in [max(0, i - w), min(n, i + w + 1))
SymmetricMean(points, k, i, w) ==
    Mean(points, k, Max(0, i - w) + 1, Min(Len(points), i + w + 1))

\* C24: for n >= W points, output point i is the average of the x's and of
\* the z's of the input points with indices in [max(0, i - W),
\* min(n, i + W + 1)): index i + W is in the window when it exists, and the
\* window is only shortened at the edges.
C24_SymmetricWindow ==
    (Smoothed /\ Len(unit.points) >= unit.w) =>
        /\ Len(unit.out) = Len(unit.points)
        /\ \A i \in 0..(Len(unit.points) - 1) :
              unit.out[i + 1] = <<SymmetricMean(unit.points, 1, i, unit.w),
                                  SymmetricMean(unit.points, 2, i, unit.w)>>

-----------------------------------------------------------------------------
(* The user store *)

\* C25: however POST /register requests interleave, no two stored users have
\* the same email; a registration whose email a stored user held when it
\* arrived answered 400 and stored nothing.
C25_EmailsAreUnique ==
    /\ \A u1, u2 \in DOMAIN users : users[u1].email = users[u2].email => u1 = u2
    /\ \A g \in Regs :
          reg[g].status = 400 => (reg[g].pc = "done" /\ NewId[g] \notin DOMAIN users)

-----------------------------------------------------------------------------
(* The client *)

\* C26: in the client the user state is non-null only while a token is
\* stored: once logout has run, user stays null and the token absent until
\* the next successful login or register, however logout interleaves with the
\* /profile fetches of the two mount effects.
C26_UserOnlyWithToken == client.user => client.token

-----------------------------------------------------------------------------
(* The rate limiter *)

\* The calls before call k that came from the same ip, were accepted, and lie
\* less than 60 seconds before it
RecentAccepted(calls, k) ==
    {j \in 1..(k - 1) :
        /\ calls[j].ip = calls[k].ip
        /\ calls[j].ok
        /\ calls[k].at - calls[j].at < RATE_LIMIT_WINDOW}

\* C27: for each ip, a call of rateLimiter is accepted exactly when fewer than
\* 5 accepted calls of the ip lie within the 60 seconds before it.  So at most
\* 5 are accepted in any 60 seconds, and a rejected call, which is not
\* recorded, does not keep the ip blocked any longer.
C27_FiveAcceptedPerWindow ==
    unit.fn = "limit" =>
        /\ \A k \in 1..Len(unit.calls) :
              /\ unit.calls[k].ok <=>
                    Cardinality(RecentAccepted(unit.calls, k)) < MAX_REQUESTS
              /\ unit.calls[k].ok =>
                    Cardinality(RecentAccepted(unit.calls, k)) + 1 <= MAX_REQUESTS
        /\ \A ip \in Ips :
              /\ Len(analysisRateLimit[ip]) <= MAX_REQUESTS
              /\ \A i \in 1..Len(analysisRateLimit[ip]) :
                    \E k \in 1..Len(unit.calls) :
                        /\ unit.calls[k].ip = ip /\ unit.calls[k].ok
                        /\ unit.calls[k].at = analysisRateLimit[ip][i]

\* Five calls of an ip were accepted at once, a sixth was rejected 30 seconds
\* later, and a seventh was accepted 60 seconds after the first five
C27_Witness ==
    /\ unit.fn = "limit"
    /\ Len(unit.calls) = 7
    /\ \A k \in 1..7 : unit.calls[k].ip = "ip1" /\ (unit.calls[k].ok <=> k # 6)
    /\ unit.calls[5].at = 0
    /\ unit.calls[6].at = 30
    /\ unit.calls[7].at = 60

-----------------------------------------------------------------------------
(* Stats and history of a user over the POST /analyze requests *)

\* The distinct track values of a history
TracksOf(history) == {history[k].track : k \in 1..Len(history)}

\* The requests that were answered with an error
Refused(h) == {r \in Reqs : h[r].status \notin {0, 200}}

-----------------------------------------------------------------------------
(* The uploaded file after the response *)

\* C29: once a request is answered, its uploaded file is no longer in the
\* upload directory, whichever response was sent.
C29_NoUploadLeftBehind ==
    \A r \in Reqs : (pc[r] = "done" /\ http[r].status # 0) => r \notin uploads

-----------------------------------------------------------------------------
(* The synthetic narrative on pairs of payloads *)

HeadCsvSwapped == <<"s","p","e","e","d",",","b","r","a","k","e",",","t","h","r","o","t","t","l","e",",","g">>

\* The same text with the character c at the indices 100, 200, ...
Resampled(text, c) == [text EXCEPT !.samples = [k \in DOMAIN text.samples |-> c]]

\* Texts that differ in their rows, their header line, their length, their
\* first character or their characters at the multiples of 100
NarrativePayloads ==
    << CsvPayload(HeadCsv, MaxRows, Gen("std", FALSE, -1, Null, Hot)),
       CsvPayload(HeadCsvSwapped, MaxRows, Gen("std", FALSE, -1, Null, Hot)),
       CsvPayload(HeadCsv, MaxRows, Gen("std", TRUE, -1, Null, Hot)),
       CsvPayload(HeadCsv, MaxRows, Gen("std", FALSE, -1, Null, {})),
       CsvPayload(HeadCsv, MaxRows - 1, Gen("std", FALSE, -1, Null, {})),
       Resampled(CsvPayload(HeadCsv, MaxRows, Gen("std", FALSE, -1, Null, Hot)), "5"),
       CsvPayload(HeadCsvBrace, MaxRows, Gen("std", FALSE, -1, Null, Hot)),
       CsvPayload(HeadCsv, 4, Gen("std", FALSE, -1, Null, {})) >>

\* analyzeTelemetryWithAI of copy A without an API key, after the extraction
\* and detection loc: the number of problems and the result
NarratedFrom(text, track, loc) ==
    [text |-> text,
     n |-> Len(loc.problems.list),
     result |-> IF loc.extraction.valid
                THEN SyntheticResult(text, track, loc.extraction.trackPoints,
                                     loc.problems.list)
                ELSE Failure(loc.extraction.reason)]

Narrated(text, track) == NarratedFrom(text, track, Local("A", text))

\* Two payloads are analysed for the same track
NarrativeCall(i, j, t) ==
    /\ unit = NoUnit
    /\ unit' = [fn |-> "narrate", track |-> Tracks[t],
                a |-> Narrated(NarrativePayloads[i], Tracks[t]),
                b |-> Narrated(NarrativePayloads[j], Tracks[t])]
    /\ UNCHANGED pipelineVars

NextNarrative ==
    \E i \in 1..Len(NarrativePayloads), j \in 1..Len(NarrativePayloads),
       t \in 1..Len(Tracks) :
        NarrativeCall(i, j, t)

SpecNarrative == InitPair /\ [][NextNarrative]_vars

\* The indices 0, 100, ..., 900 that exist in a text of the given length
SampledIndices(len) == {i \in 0..(HashLimit - 1) : i % HashStride = 0 /\ i < len}

\* The two texts have the same characters at the same sampled indices
AgreeAtSamples(s, t) ==
    /\ SampledIndices(s.len) = SampledIndices(t.len)
    /\ \A i \in SampledIndices(s.len) : CharAt(s, i) = CharAt(t, i)

\* The times and the numbers of mistakes of the sectors
SectorSummary(sectors) ==
    [i \in DOMAIN sectors |-> <<sectors[i].time, Len(sectors[i].mistakes)>>]

\* C30: two payloads that have the same characters at the indices 0, 100,
\* ..., 900 and the same number of detected problems, analysed for the same
\* track, get the same synthetic lap time, top speed, sector times, mistake
\* counts and recommendations, whatever else of the payload differs.
C30_NarrativeReadsOnlySamples ==
    ( /\ unit.fn = "narrate"
      /\ unit.a.result.valid /\ unit.b.result.valid
      /\ AgreeAtSamples(unit.a.text, unit.b.text)
      /\ unit.a.n = unit.b.n ) =>
        /\ unit.a.result.data.lapTime = unit.b.result.data.lapTime
        /\ unit.a.result.data.topSpeed = unit.b.result.data.topSpeed
        /\ SectorSummary(unit.a.result.data.sectors)
              = SectorSummary(unit.b.result.data.sectors)
        /\ unit.a.result.data.recommendations = unit.b.result.data.recommendations

\* Two texts of different lengths with different rows, equal at the sampled
\* indices and both without problems, got the same narrative
C30_Witness ==
    /\ unit.fn = "narrate"
    /\ unit.a.result.valid /\ unit.b.result.valid
    /\ unit.a.text.len # unit.b.text.len
    /\ unit.a.text.csv # unit.b.text.csv
    /\ AgreeAtSamples(unit.a.text, unit.b.text)
    /\ unit.a.n = unit.b.n
    /\ unit.a.result.data.lapTime = unit.b.result.data.lapTime
    /\ unit.a.result.data.sectors = unit.b.result.data.sectors

====
